---------------------------- MODULE Spec2Model ----------------------------
(***************************************************************************)
(* Host-side LLDP link addressing of the network operator's "discover"     *)
(* command: the peer-address resolver (selectMask30L3Address), the run     *)
(* of cmdRun (getConfig, getNetworkConfigs, interfacesUp, detectLLDP,      *)
(* lldpResults, WriteGaudiNet, configureInterfaces, interfacesRestoreDown) *)
(* and the netlink state it acts on.                                       *)
(*                                                                         *)
(* A port description is a sequence of lexical items: the space and tab    *)
(* characters, and words (a free text word, or a CIDR literal with its     *)
(* address and prefix length).  Splitting works on that sequence exactly   *)
(* as strings.Split works on the characters of the string.                 *)
(***************************************************************************)
EXTENDS Integers, Sequences, FiniteSets, TLC

VARIABLES
    rdesc,          \* resolver harness: the portDescription handed to the resolver
    rres,           \* resolver harness: what selectMask30L3Address returned for it
    pc,             \* position of the run in cmdRun
    config,         \* cmdConfig
    result,         \* what cmdRun returned ("none" while it runs)
    osUp,           \* kernel: IFF_UP of every link
    osAddrs,        \* kernel: IPv4 addresses of every link
    osRoutes,       \* kernel: routes of every link
    networkConfigs, \* map[string]*networkConfiguration
    linkUpdate,     \* link updates the kernel has emitted to the subscription
    wstate,         \* detectLLDP: state of each interface's discovery goroutine
    lldpResultChan, \* detectLLDP: results buffered in the channel
    client,         \* per link: the lldp.Client of its goroutine and what it did
    ctxDone,        \* detectLLDP: timeoutctx is done
    foundpeers,     \* cmdRun: foundpeers
    numConfigured,  \* cmdRun: numConfigured
    numTotal,       \* cmdRun: numTotal
    visited,        \* configureInterfaces: records the range loop has been through
    configured,     \* configureInterfaces: configured
    calls,          \* per link: the netlink calls issued on it so far
    faults,         \* errors the kernel has answered so far
    invocation,     \* configureInterfaces harness: number of the invocation
    prev,           \* configureInterfaces harness: the kernel state the invocation
                    \* started from and the count the previous one returned
    gaudinet,       \* the gaudinet file: whether it exists and what was written
    nfdLabel,       \* whether the scale-out readiness label file is written
    timer,          \* waitLinkResponse: seconds the pending time.After has run
    waitErr,        \* what the last call of waitLinkResponse returned ("none": none has)
    mtu,            \* the MTU requested for the scale-out interfaces (0: none)
    osMTU,          \* kernel: MTU of every link
    mtuCalls,       \* per link: the values LinkSetMTU was called with
    gaudinetErr,    \* cmdRun: what WriteGaudiNet returned ("none": not called)
    networkdDir,    \* whether the systemd-networkd directory exists
    networkdFiles,  \* per interface name: its <ifname>.network file in the directory
    networkdLog,    \* WriteSystemdNetworkd: the file operations of the call so far
    networkdConfigured, \* WriteSystemdNetworkd: configured
    networkdRet,    \* what WriteSystemdNetworkd returned
    nmPc,           \* DisableNetworkManagerForInterfaces: the call it is at
    nmInterfaces,   \* DisableNetworkManagerForInterfaces: interfaces
    nmDevices,      \* NetworkManager: its devices, in the order of GetAllDevices
    nmPos,          \* DisableNetworkManagerForInterfaces: position of the range loop
    nmCalls,        \* the calls made on NetworkManager and its devices, with their errors
    nmRet,          \* what DisableNetworkManagerForInterfaces returned
    sysfsRootBad,   \* SYSFS_ROOT is a malformed glob pattern
    sysfsDriver,    \* sysfs: the directory bus/pci/drivers/habanalabs
    sysfsNet,       \* sysfs: per PCI device directory, its net/ children
    networks,       \* what getNetworks returned
    netconf,        \* API server: the NetworkConfiguration
    daemonSets,     \* API server: the DaemonSets the NetworkConfiguration owns
    lastReconcile,  \* what the last Reconcile issued and returned
    reconciles      \* number of Reconcile calls so far

rvars == <<rdesc, rres>>
osvars == <<osUp, osAddrs, osRoutes>>
cfgvars == <<visited, configured, calls>>
lldpvars == <<wstate, lldpResultChan, client, ctxDone>>
waitvars == <<timer, waitErr>>
mtuvars == <<mtu, osMTU, mtuCalls>>
exportvars == <<gaudinetErr>>
networkdvars == <<networkdDir, networkdFiles, networkdLog, networkdConfigured, networkdRet>>
nmvars == <<nmPc, nmInterfaces, nmDevices, nmPos, nmCalls, nmRet>>
sysfsvars == <<sysfsRootBad, sysfsDriver, sysfsNet, networks>>
reconcilevars == <<netconf, daemonSets, lastReconcile, reconciles>>
extvars == <<nmvars, sysfsvars, reconcilevars>>
auxvars == <<waitvars, mtuvars, exportvars, networkdvars, extvars>>
runvars == <<pc, config, result, osvars, networkConfigs, linkUpdate, lldpvars,
             foundpeers, numConfigured, numTotal, cfgvars, faults, invocation,
             prev, gaudinet, nfdLabel, auxvars>>
vars == <<rvars, runvars>>

---------------------------------------------------------------------------
(* Lexical items of a port description *)

SP  == [kind |-> "sp"]
TAB == [kind |-> "tab"]
Text(s) == [kind |-> "text", s |-> s]
\* a CIDR literal "<addr>/<bits>"; form is "v4" (dotted quad), "v4in6"
\* (::ffff:a.b.c.d) or "v6" (an IPv6 address with no 4-byte form)
Cidr(form, ip, bits) == [kind |-> "cidr", form |-> form, ip |-> ip, bits |-> bits]

\* net.IP values: a 4-tuple of octets stands for an address that has a
\* 4-byte form; any other length for one that has none.  NilIP is the nil IP.
NilIP == <<>>
V6Addr == <<8193, 3512, 0, 0, 0, 0, 0, 1>>

\* (net.IP).To4
To4(ip) == IF Len(ip) = 4 THEN ip ELSE NilIP

\* net.IPv4(a, b, c, d)
IPv4(a, b, c, d) == <<a, b, c, d>>

\* byte ^ byte
RECURSIVE Xor8(_, _)
Xor8(a, b) ==
    IF a = 0 /\ b = 0 THEN 0
    ELSE (((a % 2) + (b % 2)) % 2) + (2 * Xor8(a \div 2, b \div 2))

\* strings.Split(s, " "): the fields between single space characters; n
\* spaces give n+1 fields, empty ones included.
RECURSIVE Split(_)
Split(s) ==
    IF \A i \in 1..Len(s) : s[i] # SP
    THEN <<s>>
    ELSE LET k == CHOOSE i \in 1..Len(s) : s[i] = SP /\ \A j \in 1..(i-1) : s[j] # SP
         IN  <<SubSeq(s, 1, k-1)>> \o Split(SubSeq(s, k+1, Len(s)))

\* net.ParseCIDR: succeeds on exactly one well-formed CIDR literal.  The IP
\* returned is the literal's address (not masked); ones is the prefix length.
ParseCIDR(field) ==
    IF /\ Len(field) = 1
       /\ field[1].kind = "cidr"
       /\ field[1].bits >= 0
       /\ field[1].bits <= (IF field[1].form = "v4" THEN 32 ELSE 128)
    THEN [ok |-> TRUE,
          ip |-> IF field[1].form = "v6" THEN V6Addr ELSE field[1].ip,
          ones |-> field[1].bits]
    ELSE [ok |-> FALSE, ip |-> NilIP, ones |-> 0]

\* the last octet of the local address: the peer's with the two low bits toggled
LocalOctetFlip1(o) == Xor8(o, 1)
LocalOctet(o) == Xor8(o, 3)

\* selectMask30L3Address.  cidrArg records the argument of the ParseCIDR
\* call (<<>> when ParseCIDR is not called); panic that the function did not
\* return (index out of range on the nil result of To4).
selectMask30L3Address(portDescription) ==
    LET substrings == Split(portDescription) IN
    IF Len(substrings) < 2
    THEN [peer |-> NilIP, local |-> NilIP, err |-> "split", cidrArg |-> <<>>, panic |-> FALSE]
    ELSE
      LET p == ParseCIDR(substrings[2]) IN
      IF ~p.ok
      THEN [peer |-> NilIP, local |-> NilIP, err |-> "parse",
            cidrArg |-> <<substrings[2]>>, panic |-> FALSE]
      ELSE IF p.ones = 30
      THEN LET peer == To4(p.ip) IN
           IF peer = NilIP
           THEN [peer |-> NilIP, local |-> NilIP, err |-> "none",
                 cidrArg |-> <<substrings[2]>>, panic |-> TRUE]
           ELSE [peer |-> p.ip,
                 local |-> IPv4(peer[1], peer[2], peer[3], LocalOctet(peer[4])),
                 err |-> "none", cidrArg |-> <<substrings[2]>>, panic |-> FALSE]
      ELSE [peer |-> p.ip, local |-> NilIP, err |-> "mask",
            cidrArg |-> <<substrings[2]>>, panic |-> FALSE]

\* the resolver has not been called yet
Pending == [peer |-> NilIP, local |-> NilIP, err |-> "pending", cidrArg |-> <<>>, panic |-> FALSE]

---------------------------------------------------------------------------
(* The kernel's links, addresses and routes *)

Links == {"eth_a", "eth_b"}          \* names LinkByName resolves
Names == Links \cup {"foo"}          \* names a run may be given

Addr(ip, bits) == [ip |-> ip, bits |-> bits]

\* 2^n
RECURSIVE Pow2(_)
Pow2(n) == IF n = 0 THEN 1 ELSE 2 * Pow2(n - 1)

\* (net.IP).Mask(net.CIDRMask(bits, 32))
Mask(ip, bits) ==
    [i \in 1..4 |->
        LET k == IF bits >= 8 * i THEN 8
                 ELSE IF bits <= 8 * (i - 1) THEN 0
                 ELSE bits - 8 * (i - 1)
        IN  ip[i] - (ip[i] % Pow2(8 - k))]

RouteMaskRoutedNetwork == 16
RouteMaskPointToPoint == 30

\* the netlink.Route addRoute builds for a record and a mask
NewRoute(nwconfig, mask) ==
    IF mask = RouteMaskRoutedNetwork
    THEN [dst |-> Mask(nwconfig.localAddr, mask), bits |-> mask,
          gw |-> nwconfig.lldpPeer, src |-> NilIP, protocol |-> "unspec", scope |-> "universe"]
    ELSE [dst |-> Mask(nwconfig.localAddr, mask), bits |-> mask,
          gw |-> NilIP, src |-> nwconfig.localAddr, protocol |-> "kernel", scope |-> "link"]

\* the route the kernel installs by itself when a /30 address is added
KernelRoute(addr) ==
    [dst |-> Mask(addr.ip, addr.bits), bits |-> addr.bits,
     gw |-> NilIP, src |-> addr.ip, protocol |-> "kernel", scope |-> "link"]

\* reply of RouteAppend: a fault is any error other than "exists"
RouteAppendReply(routes, route, fault) ==
    IF fault THEN "error" ELSE IF route \in routes THEN "exists" ELSE "ok"

\* addRoute's return value for a RouteAppend reply: errors.Is(err, os.ErrExist)
\* is turned into no error
addRouteFails(reply) == reply \notin {"ok", "exists"}

\* the address-list scan of configureInterfaces
foundExistingNever(localAddr, addrs) == FALSE
foundExisting(localAddr, addrs) == \E addr \in addrs : addr.ip = localAddr

\* calls made on one link: how many of each, and the addresses given to AddrAdd
\* and how often configured++ was reached in the link's iteration; err is the
\* call of the iteration that returned an error ("none": no call did)
NoCall == [AddrList |-> 0, AddrAdd |-> 0, Route30 |-> 0, Route16 |-> 0,
           LinkSetUp |-> 0, LinkSetDown |-> 0, added |-> {}, counted |-> 0, err |-> "none"]
NoCalls == [n \in Links |-> NoCall]
MergeCalls(a, b) ==
    [AddrList |-> a.AddrList + b.AddrList, AddrAdd |-> a.AddrAdd + b.AddrAdd,
     Route30 |-> a.Route30 + b.Route30, Route16 |-> a.Route16 + b.Route16,
     LinkSetUp |-> a.LinkSetUp + b.LinkSetUp, LinkSetDown |-> a.LinkSetDown + b.LinkSetDown,
     added |-> a.added \cup b.added, counted |-> a.counted + b.counted,
     err |-> IF b.err # "none" THEN b.err ELSE a.err]

\* whether the loop of configureInterfaces goes on to the next record after
\* an error on one (continue)
LoopAbortsOnError(all, done, n) == all
LoopAfterError(all, done, n) == done \cup {n}

\* whether an iteration that got through every call counts the interface
CountsAlways(ok) == 1
Counts(ok) == IF ok THEN 1 ELSE 0

\* whether the /30 route is appended explicitly when the address was found
EnsuresNoRoute(found) == FALSE
EnsuresPointToPointRoute(found) == found

\* One iteration of the range loop of configureInterfaces on record n;
\* fault names the netlink call the kernel answers with an error ("none":
\* no error).  Yields the kernel state after it, the calls made and whether
\* the iteration reached configured++.
ConfigureOne(n, nwconfig, addrs, routes, fault) ==
    LET found == foundExisting(nwconfig.localAddr, addrs)
        newlinkaddr == Addr(nwconfig.localAddr, 30)
        base == [addrs |-> addrs, routes |-> routes, ok |-> FALSE,
                 c |-> [NoCall EXCEPT !.AddrList = 1]]
        r30 == NewRoute(nwconfig, RouteMaskPointToPoint)
        r16 == NewRoute(nwconfig, RouteMaskRoutedNetwork)
    IN
    IF fault = "AddrList" THEN [base EXCEPT !.c.err = "AddrList"]
    ELSE
      LET afterAddr ==
            IF ~found
            THEN IF fault = "AddrAdd" \/ newlinkaddr \in addrs
                 THEN [base EXCEPT !.c.AddrAdd = 1, !.c.added = {newlinkaddr},
                                   !.c.err = "AddrAdd"]
                 ELSE [base EXCEPT !.c.AddrAdd = 1, !.c.added = {newlinkaddr},
                                   !.addrs = addrs \cup {newlinkaddr},
                                   !.routes = routes \cup {KernelRoute(newlinkaddr)},
                                   !.ok = TRUE]
            ELSE IF EnsuresPointToPointRoute(found)
                 THEN LET reply == RouteAppendReply(routes, r30, fault = "Route30") IN
                      [base EXCEPT !.c.Route30 = 1,
                                   !.routes = IF reply = "ok" THEN routes \cup {r30} ELSE routes,
                                   !.c.err = IF reply = "error" THEN "Route30" ELSE "none",
                                   !.ok = ~addRouteFails(reply)]
                 ELSE [base EXCEPT !.ok = TRUE]
      IN
      IF ~afterAddr.ok THEN afterAddr
      ELSE LET reply == RouteAppendReply(afterAddr.routes, r16, fault = "Route16") IN
           [afterAddr EXCEPT !.c.Route16 = 1,
                             !.routes = IF reply = "ok" THEN afterAddr.routes \cup {r16}
                                        ELSE afterAddr.routes,
                             !.c.err = IF reply = "error" THEN "Route16" ELSE "none",
                             !.ok = ~addRouteFails(reply)]

\* the netlink calls an iteration can get an error from
FaultPoints(nwconfig, addrs) ==
    {"none", "AddrList", "Route16"} \cup
    (IF foundExisting(nwconfig.localAddr, addrs) THEN {"Route30"} ELSE {"AddrAdd"})

MaxFaults == 1

\* configureInterfaces, one pass of "for _, nwconfig := range networkConfigs"
configureInterfacesStep(n) ==
    /\ pc = "configureInterfaces"
    /\ n \in DOMAIN networkConfigs
    /\ n \notin visited
    /\ LET nwconfig == networkConfigs[n] IN
       IF nwconfig.localAddr = NilIP
       THEN /\ visited' = visited \cup {n}
            /\ UNCHANGED <<osvars, configured, calls, faults>>
       ELSE \E fault \in FaultPoints(nwconfig, osAddrs[n]) :
              /\ fault # "none" => faults < MaxFaults
              /\ LET o == ConfigureOne(n, nwconfig, osAddrs[n], osRoutes[n], fault) IN
                 /\ osAddrs' = [osAddrs EXCEPT ![n] = o.addrs]
                 /\ osRoutes' = [osRoutes EXCEPT ![n] = o.routes]
                 /\ configured' = configured + Counts(o.ok)
                 /\ calls' = [calls EXCEPT ![n] =
                                MergeCalls(calls[n], [o.c EXCEPT !.counted = Counts(o.ok)])]
                 /\ visited' = IF o.ok THEN visited \cup {n}
                               ELSE LoopAfterError(DOMAIN networkConfigs, visited, n)
                 /\ faults' = IF fault = "none" THEN faults ELSE faults + 1
                 /\ UNCHANGED osUp
    /\ UNCHANGED <<rvars, auxvars, pc, config, result, networkConfigs, linkUpdate, lldpvars,
                   foundpeers, numConfigured, numTotal, invocation, prev, gaudinet, nfdLabel>>

\* configureInterfaces: return configured, len(networkConfigs)
configureInterfacesReturn ==
    /\ pc = "configureInterfaces"
    /\ visited = DOMAIN networkConfigs
    /\ numConfigured' = configured
    /\ numTotal' = Cardinality(DOMAIN networkConfigs)
    /\ pc' = "logResults"
    /\ UNCHANGED <<rvars, auxvars, config, result, osvars, networkConfigs, linkUpdate, lldpvars,
                   foundpeers, cfgvars, faults, invocation, prev, gaudinet, nfdLabel>>

---------------------------------------------------------------------------
(* The MTU of the scale-out interfaces *)

\* GaudiScaleOutSpec.MTU: +kubebuilder:validation:Minimum and Maximum
MinMTU == 1500
MaxMTU == 9000

\* the value applied for a requested MTU: clamped into [MinMTU, MaxMTU]
clampMTU(m) == IF m < MinMTU THEN MinMTU ELSE IF m > MaxMTU THEN MaxMTU ELSE m

\* interfacesSetMTU: the records its loop calls LinkSetMTU for, when the
\* call fails for the links in failed (a warning is logged, the loop goes on)
setMTUUntilError(nwconfigs, failed) == IF failed = {} THEN DOMAIN nwconfigs ELSE failed
setMTULinks(nwconfigs, failed) == DOMAIN nwconfigs

\* interfacesSetMTU(networkConfigs, m)
interfacesSetMTU(m) ==
    \E failed \in SUBSET DOMAIN networkConfigs :
       LET called == setMTULinks(networkConfigs, failed) IN
       /\ faults + Cardinality(failed) <= MaxFaults
       /\ faults' = faults + Cardinality(failed)
       /\ mtuCalls' = [n \in Links |->
                         IF n \in called THEN Append(mtuCalls[n], m) ELSE mtuCalls[n]]
       /\ osMTU' = [n \in Links |-> IF n \in called \ failed THEN m ELSE osMTU[n]]

\* the run sets the MTU when one was requested
setMTU ==
    /\ pc = "setMTU"
    /\ IF mtu # 0
       THEN interfacesSetMTU(clampMTU(mtu))
       ELSE UNCHANGED <<faults, mtuCalls, osMTU>>
    /\ pc' = "removeExistingIPs"
    /\ UNCHANGED <<rvars, extvars, waitvars, exportvars, networkdvars, mtu, config, result, osvars, networkConfigs, linkUpdate,
                   lldpvars, foundpeers, numConfigured, numTotal, cfgvars, invocation, prev,
                   gaudinet, nfdLabel>>

---------------------------------------------------------------------------
(* The run of cmdRun *)

NilPtr == "nil"                      \* a nil *net.HardwareAddr
HwAddr(n) == IF n = "eth_a" THEN "01:02:03:04:05:0a" ELSE "01:02:03:04:05:0b"

PeerIP(n) == IF n = "eth_a" THEN IPv4(10, 210, 8, 122) ELSE IPv4(10, 210, 8, 126)
Unrelated == Addr(IPv4(192, 192, 192, 1), 24)
Unrelated2 == Addr(IPv4(172, 16, 0, 9), 16)

\* the LLDP frames the switch port of a link may send
Frames(n) ==
    IF n = "eth_a"
    THEN {[PortDescription |-> <<Text("no-alert"), SP, Cidr("v4", PeerIP(n), 30)>>,
           PeerMAC |-> "06:05:04:03:02:0a"],
          [PortDescription |-> <<Text("no-alert"), SP, Cidr("v4", PeerIP(n), 16)>>,
           PeerMAC |-> "06:05:04:03:02:0a"]}
    ELSE {[PortDescription |-> <<Text("no-alert"), SP, Cidr("v4", PeerIP(n), 30)>>,
           PeerMAC |-> "06:05:04:03:02:0b"],
          [PortDescription |-> <<Text("unexpected"), SP, Text("port"), SP, Text("description")>>,
           PeerMAC |-> ""],
          [PortDescription |-> <<Text("no-alert"), SP, Cidr("v4", PeerIP(n), 30)>>,
           PeerMAC |-> ""],
          [PortDescription |-> <<Text("no-alert"), SP, Cidr("v6", V6Addr, 30)>>,
           PeerMAC |-> "06:05:04:03:02:0b"]}

MaxOpens == 2

\* the lldp.Client of a link: whether l.handle is set, how many capture
\* handles it has open and has opened, how many results it sent, how Start
\* returned and how many of its results detectLLDP read
NoClient == [handle |-> FALSE, openHandles |-> 0, opens |-> 0, sent |-> 0,
             exit |-> "none", consumed |-> 0]

Modes == {"L2", "L3"}
NoConfig == [ifaces |-> {}, mode |-> "L3", configure |-> FALSE, gaudinetfile |-> "",
             keepRunning |-> FALSE]

\* nothing is waiting for a link update
MtuIdle ==
    /\ mtu = 0
    /\ osMTU = [n \in Links |-> MinMTU]
    /\ mtuCalls = [n \in Links |-> << >>]

\* no gaudinet file
NoFile == [exists |-> FALSE]

\* WriteSystemdNetworkd has not returned
NoReturn == [returned |-> FALSE]

ExportIdle ==
    /\ gaudinetErr = "none"
    /\ networkdDir = FALSE
    /\ networkdFiles = [n \in Links |-> NoFile]
    /\ networkdLog = << >>
    /\ networkdConfigured = << >>
    /\ networkdRet = NoReturn

\* DisableNetworkManagerForInterfaces is not called
NmIdle ==
    /\ nmPc = "none"
    /\ nmInterfaces = {}
    /\ nmDevices = << >>
    /\ nmPos = 0
    /\ nmCalls = << >>
    /\ nmRet = "none"

\* no directory
NoDir == [exists |-> FALSE]

\* getNetworks is not called (the interfaces are those of --interfaces)
SysfsIdle ==
    /\ sysfsRootBad = FALSE
    /\ sysfsDriver = NoDir
    /\ sysfsNet = << >>
    /\ networks = NoReturn

\* no object of that name on the API server
NoObject == [exists |-> FALSE]

\* no Reconcile has run since an object last changed
NoReconcile == [done |-> FALSE]

\* the operator is not running
ReconcileIdle ==
    /\ netconf = NoObject
    /\ daemonSets = {}
    /\ lastReconcile = NoReconcile
    /\ reconciles = 0

ExtIdle == NmIdle /\ SysfsIdle /\ ReconcileIdle

AuxIdle ==
    /\ timer = 0
    /\ waitErr = "none"
    /\ MtuIdle
    /\ ExportIdle

RunIdle ==
    /\ config = NoConfig
    /\ result = "none"
    /\ networkConfigs = << >>
    /\ linkUpdate = {}
    /\ wstate = [n \in Links |-> "none"]
    /\ lldpResultChan = << >>
    /\ client = [n \in Links |-> NoClient]
    /\ ctxDone = FALSE
    /\ foundpeers = FALSE
    /\ numConfigured = 0
    /\ numTotal = 0
    /\ visited = {}
    /\ configured = 0
    /\ calls = NoCalls
    /\ faults = 0
    /\ invocation = 0
    /\ prev = << >>
    /\ gaudinet = NoFile
    /\ nfdLabel = FALSE
    /\ AuxIdle

Init ==
    /\ rdesc = << >>
    /\ rres = Pending
    /\ pc = "getConfig"
    /\ osUp \in [Links -> BOOLEAN]
    /\ osAddrs \in [Links -> {{}, {Unrelated}}]
    /\ osRoutes = [n \in Links |-> {}]
    /\ RunIdle
    /\ ExtIdle

\* the interface lists a run is given: none, links of the driver, and
\* names of --interfaces that no link has
IfaceLists == {{}, {"foo"}, {"eth_a"}, {"eth_b"}, {"eth_a", "foo"}, {"eth_a", "eth_b"}}

\* getConfig: the flags, the interfaces of the driver and of --interfaces
getConfig ==
    /\ pc = "getConfig"
    /\ \E ifaces \in IfaceLists, mode \in Modes \cup {"bad"}, configure \in BOOLEAN,
          gaudinetfile \in {"", "gaudinet.json"}, keepRunning \in BOOLEAN :
          IF ifaces = {}
          THEN /\ result' = "No devices found"
               /\ pc' = "exit"
               /\ UNCHANGED config
          ELSE IF mode \notin Modes
          THEN /\ result' = "Cannot parse mode"
               /\ pc' = "exit"
               /\ UNCHANGED config
          ELSE /\ config' = [ifaces |-> ifaces, mode |-> mode, configure |-> configure,
                             gaudinetfile |-> gaudinetfile, keepRunning |-> keepRunning]
               /\ pc' = "getNetworkConfigs"
               /\ UNCHANGED result
    /\ UNCHANGED <<rvars, auxvars, osvars, networkConfigs, linkUpdate, lldpvars, foundpeers,
                   numConfigured, numTotal, cfgvars, faults, invocation, prev, gaudinet, nfdLabel>>

NewRecord(n, up) ==
    [link |-> TRUE, flagsUp |-> up, origState |-> up, expectResponse |-> FALSE,
     portDescription |-> << >>,
     lldpPeer |-> NilIP, localAddr |-> NilIP, peerHWAddr |-> NilPtr, localHwAddr |-> HwAddr(n)]

\* getNetworkConfigs: a record for every name LinkByName resolves
getNetworkConfigsFor(ifacenames) ==
    [n \in ifacenames \cap Links |-> NewRecord(n, osUp[n])]

getNetworkConfigs ==
    /\ pc = "getNetworkConfigs"
    /\ networkConfigs' = getNetworkConfigsFor(config.ifaces)
    /\ numTotal' = Cardinality(config.ifaces \cap Links)
    /\ pc' = "interfacesUp"
    /\ UNCHANGED <<rvars, auxvars, config, result, osvars, linkUpdate, lldpvars, foundpeers,
                   numConfigured, cfgvars, faults, invocation, prev, gaudinet, nfdLabel>>

\* interfacesUp: expectResponse after LinkSetUp returned (ok: err == nil)
expectResponseAlways(ok) == TRUE
expectResponseAfter(ok) == ok

\* interfacesUp up to the call of waitLinkResponse
interfacesUp ==
    /\ pc = "interfacesUp"
    /\ \/ /\ faults < MaxFaults                 \* LinkSubscribe fails
          /\ faults' = faults + 1
          /\ result' = "LinkSubscribe failed"
          /\ pc' = "exit"
          /\ UNCHANGED <<osvars, networkConfigs, linkUpdate, calls>>
       \/ \E failed \in SUBSET {n \in DOMAIN networkConfigs : ~networkConfigs[n].flagsUp} :
          LET down == {n \in DOMAIN networkConfigs : ~networkConfigs[n].flagsUp} IN
          /\ faults + Cardinality(failed) <= MaxFaults
          /\ faults' = faults + Cardinality(failed)
          /\ networkConfigs' = [n \in DOMAIN networkConfigs |->
                [networkConfigs[n] EXCEPT !.expectResponse =
                    n \in down /\ expectResponseAfter(n \notin failed)]]
          /\ osUp' = [n \in Links |-> osUp[n] \/ n \in down \ failed]
          /\ linkUpdate' = down \ failed
          /\ calls' = [n \in Links |->
                IF n \in down THEN [calls[n] EXCEPT !.LinkSetUp = @ + 1] ELSE calls[n]]
          /\ pc' = "waitUp"
          /\ UNCHANGED <<osAddrs, osRoutes, result>>
    /\ UNCHANGED <<rvars, auxvars, config, lldpvars, foundpeers, numConfigured, numTotal,
                   visited, configured, invocation, prev, gaudinet, nfdLabel>>

\* allLinksResponded: no record has expectResponse set
anyLinkResponded ==
    networkConfigs = << >> \/ \E n \in DOMAIN networkConfigs : ~networkConfigs[n].expectResponse
allLinksResponded == \A n \in DOMAIN networkConfigs : ~networkConfigs[n].expectResponse

\* where the caller of waitLinkResponse goes on: cmdRun after interfacesUp
\* ("if config.mode == L3 { detectLLDP(...) ... }"), or after
\* interfacesRestoreDown
AfterWaitDetects == IF pc = "waitUp" THEN "detectLLDP" ELSE "keepRunning"
AfterWait == IF pc = "waitUp"
             THEN (IF config.mode = "L3" THEN "detectLLDP" ELSE "logResults")
             ELSE "keepRunning"

\* waitLinkResponse: "case <-time.After(3 * time.Second)", in seconds
waitLinkResponseTimeout == 3

\* the timer a select statement of waitLinkResponse starts with: every
\* evaluation of the select calls time.After again
timerOfSelect(t) == 0

\* waitLinkResponse: case update := <-linkUpdate, for a link of the map
waitLinkResponseUpdate(n) ==
    /\ pc \in {"waitUp", "waitDown"}
    /\ ~allLinksResponded
    /\ n \in linkUpdate
    /\ linkUpdate' = linkUpdate \ {n}
    /\ networkConfigs' =
          IF n \in DOMAIN networkConfigs
          THEN [networkConfigs EXCEPT ![n].flagsUp = osUp[n], ![n].expectResponse = FALSE]
          ELSE networkConfigs
    /\ timer' = timerOfSelect(timer)
    /\ UNCHANGED waitErr
    /\ UNCHANGED <<rvars, extvars, mtuvars, exportvars, networkdvars, pc, config, result, osvars, lldpvars, foundpeers, numConfigured,
                   numTotal, cfgvars, faults, invocation, prev, gaudinet, nfdLabel>>

\* waitLinkResponse: case update := <-linkUpdate, for a link of the host
\* that is not in the map (the subscription delivers the updates of every
\* link): nothing is stored and the loop goes to its next select
waitLinkResponseOther(n) ==
    /\ pc \in {"waitUp", "waitDown"}
    /\ ~allLinksResponded
    /\ n \notin DOMAIN networkConfigs
    /\ timer' = timerOfSelect(timer)
    /\ UNCHANGED waitErr
    /\ UNCHANGED <<rvars, extvars, mtuvars, exportvars, networkdvars, pc, config, result, osvars, networkConfigs, linkUpdate, lldpvars,
                   foundpeers, numConfigured, numTotal, cfgvars, faults, invocation, prev,
                   gaudinet, nfdLabel>>

\* a second passes while waitLinkResponse blocks in its select
waitLinkResponseTick ==
    /\ pc \in {"waitUp", "waitDown"}
    /\ ~allLinksResponded
    /\ timer < waitLinkResponseTimeout
    /\ timer' = timer + 1
    /\ UNCHANGED waitErr
    /\ UNCHANGED <<rvars, extvars, mtuvars, exportvars, networkdvars, pc, config, result, osvars, networkConfigs, linkUpdate, lldpvars,
                   foundpeers, numConfigured, numTotal, cfgvars, faults, invocation, prev,
                   gaudinet, nfdLabel>>

\* what interfacesUp and interfacesRestoreDown return after waitLinkResponse
\* returned err: "_ = waitLinkResponse(...)", then return nil
waitErrorReturned(err) == err
waitErrorDropped(err) == "nil"

\* waitLinkResponse returns: every link responded, or the time.After of
\* the pending select fired; the caller drops the error and closes the
\* subscription
waitLinkResponseReturn ==
    /\ pc \in {"waitUp", "waitDown"}
    /\ allLinksResponded \/ timer = waitLinkResponseTimeout
    /\ LET err == IF allLinksResponded THEN "nil" ELSE "timeout waiting for netlink reply"
           ret == waitErrorDropped(err)
       IN  /\ waitErr' = err
           /\ IF ret = "nil"
              THEN pc' = AfterWait /\ UNCHANGED result
              ELSE pc' = "exit" /\ result' = ret
    /\ linkUpdate' = {}
    /\ timer' = 0
    /\ UNCHANGED <<rvars, extvars, mtuvars, exportvars, networkdvars, config, osvars, networkConfigs, lldpvars, foundpeers,
                   numConfigured, numTotal, cfgvars, faults, invocation, prev, gaudinet, nfdLabel>>

\* detectLLDP starts a goroutine for a record whose link has FlagUp
startsWorker(nwconfig) == nwconfig.flagsUp

\* detectLLDP: the loop that starts one goroutine per record whose link is up
detectLLDP ==
    /\ pc = "detectLLDP"
    /\ wstate' = [n \in Links |->
                    IF n \in DOMAIN networkConfigs /\ startsWorker(networkConfigs[n])
                    THEN "open" ELSE "none"]
    /\ lldpResultChan' = << >>
    /\ client' = [n \in Links |-> NoClient]
    /\ ctxDone' = FALSE
    /\ pc' = "wgWait"
    /\ UNCHANGED <<rvars, auxvars, config, result, osvars, networkConfigs, linkUpdate, foundpeers,
                   numConfigured, numTotal, cfgvars, faults, invocation, prev, gaudinet,
                   nfdLabel>>

\* context.WithTimeout: the deadline of timeoutctx passes
ctxTimeout ==
    /\ pc = "wgWait"
    /\ ~ctxDone
    /\ ctxDone' = TRUE
    /\ UNCHANGED <<rvars, auxvars, pc, config, result, osvars, networkConfigs, linkUpdate, wstate,
                   lldpResultChan, client, foundpeers, numConfigured, numTotal, cfgvars,
                   faults, invocation, prev, gaudinet, nfdLabel>>

\* pcap.OpenLive succeeded: one more handle is open (opens counts up to MaxOpens)
Opened(c) ==
    [c EXCEPT !.handle = TRUE, !.openHandles = @ + 1,
              !.opens = IF @ < MaxOpens THEN @ + 1 ELSE @]

\* (l *Client) Close, deferred by Start
Close(c) == IF c.handle THEN [c EXCEPT !.openHandles = @ - 1] ELSE c

\* Start, loop top with l.handle == nil: OpenLive and SetBPFFilter succeed
lldpClientOpen(n) ==
    /\ pc = "wgWait"
    /\ wstate[n] = "open"
    /\ client' = [client EXCEPT ![n] = Opened(@)]
    /\ wstate' = [wstate EXCEPT ![n] = "listening"]
    /\ UNCHANGED <<rvars, auxvars, pc, config, result, osvars, networkConfigs, linkUpdate,
                   lldpResultChan, ctxDone, foundpeers, numConfigured, numTotal, cfgvars,
                   faults, invocation, prev, gaudinet, nfdLabel>>

\* Start, loop top: OpenLive fails (no handle), or SetBPFFilter fails on the
\* handle just opened; Start returns the error
lldpClientFails(n) ==
    /\ pc = "wgWait"
    /\ wstate[n] = "open"
    /\ faults < MaxFaults
    /\ faults' = faults + 1
    /\ \/ client' = [client EXCEPT ![n] = Close([@ EXCEPT !.exit = "OpenLive failed"])]
       \/ client' = [client EXCEPT ![n] = Close([Opened(@) EXCEPT !.exit = "SetBPFFilter failed"])]
    /\ wstate' = [wstate EXCEPT ![n] = "done"]
    /\ UNCHANGED <<rvars, auxvars, pc, config, result, osvars, networkConfigs, linkUpdate,
                   lldpResultChan, ctxDone, foundpeers, numConfigured, numTotal, cfgvars,
                   invocation, prev, gaudinet, nfdLabel>>

\* the number of open handles after the !ok branch
handleLeakOnEOF(k) == k
handleCloseOnEOF(k) == k - 1

\* Start, case packet, ok := <-packetSource.Packets() with !ok: the handle
\* is closed and set to nil, the loop continues
lldpClientEOF(n) ==
    /\ pc = "wgWait"
    /\ wstate[n] = "listening"
    /\ client' = [client EXCEPT ![n].handle = FALSE,
                                ![n].openHandles = handleCloseOnEOF(@)]
    /\ wstate' = [wstate EXCEPT ![n] = "open"]
    /\ UNCHANGED <<rvars, auxvars, pc, config, result, osvars, networkConfigs, linkUpdate,
                   lldpResultChan, ctxDone, foundpeers, numConfigured, numTotal, cfgvars,
                   faults, invocation, prev, gaudinet, nfdLabel>>

\* where Start goes after resultChan <- dr
matchContinues == "listening"
matchReturns == "done"

\* detectLLDP: make(chan lldp.DiscoveryResult, len(networkConfigs))
capOne(nwconfigs) == 1
capResultChan(nwconfigs) == Cardinality(DOMAIN nwconfigs)

\* Start, case packet: an Ethernet frame is decoded, sent to the channel
\* (the send blocks while the channel is full) and Start returns nil
lldpClientMatch(n) ==
    /\ pc = "wgWait"
    /\ wstate[n] = "listening"
    /\ Len(lldpResultChan) < capResultChan(networkConfigs)
    /\ \E f \in Frames(n) :
          lldpResultChan' = Append(lldpResultChan,
              [InterfaceName |-> n, PortDescription |-> f.PortDescription,
               PeerMAC |-> f.PeerMAC])
    /\ client' = [client EXCEPT ![n] =
                    IF matchReturns = "done"
                    THEN Close([@ EXCEPT !.sent = @ + 1, !.exit = "result"])
                    ELSE [@ EXCEPT !.sent = @ + 1]]
    /\ wstate' = [wstate EXCEPT ![n] = matchReturns]
    /\ UNCHANGED <<rvars, auxvars, pc, config, result, osvars, networkConfigs, linkUpdate, ctxDone,
                   foundpeers, numConfigured, numTotal, cfgvars, faults, invocation, prev,
                   gaudinet, nfdLabel>>

\* whether the select of Start can take case <-l.ctx.Done()
ctxDoneCaseNever(done) == FALSE
ctxDoneCase(done) == done

\* what Start sends when it takes case <-l.ctx.Done()
zeroValueOnCancel(n) == <<[InterfaceName |-> n, PortDescription |-> << >>, PeerMAC |-> ""]>>
resultsOnCancel(n) == << >>

\* Start, case <-l.ctx.Done(): return nil
lldpClientCancelled(n) ==
    /\ pc = "wgWait"
    /\ wstate[n] = "listening"
    /\ ctxDoneCase(ctxDone)
    /\ lldpResultChan' = lldpResultChan \o resultsOnCancel(n)
    /\ client' = [client EXCEPT ![n] =
                    Close([@ EXCEPT !.sent = @ + Len(resultsOnCancel(n)), !.exit = "cancelled"])]
    /\ wstate' = [wstate EXCEPT ![n] = "done"]
    /\ UNCHANGED <<rvars, auxvars, pc, config, result, osvars, networkConfigs, linkUpdate, ctxDone,
                   foundpeers, numConfigured, numTotal, cfgvars, faults, invocation, prev,
                   gaudinet, nfdLabel>>

\* wg.Wait(): every goroutine started has called wg.Done()
wgWaitSkipped(ws) == TRUE
wgWait(ws) == \A n \in Links : ws[n] \notin {"open", "listening"}

\* the results the loop "for len(lldpResultChan) > 0" reads
DrainedFirst(ch) == IF ch = << >> THEN ch ELSE <<Head(ch)>>
Drained(ch) == ch

\* the key detectLLDP looks a result up under:
\* networkConfigs[result.InterfaceName]
keyOfFirstLink(r) == "eth_a"
keyOfResult(r) == r.InterfaceName

\* the records after the results read were stored in them
RECURSIVE Merge(_, _)
Merge(nwconfigs, ch) ==
    IF ch = << >> THEN nwconfigs
    ELSE LET r == Head(ch)
             k == keyOfResult(r)
         IN
         Merge(IF k \in DOMAIN nwconfigs
               THEN [nwconfigs EXCEPT ![k].portDescription = r.PortDescription,
                                      ![k].peerHWAddr = r.PeerMAC]
               ELSE nwconfigs,
               Tail(ch))

\* detectLLDP after wg.Wait(): the channel is drained into the records;
\* the deferred cancelctx() runs at the return
detectLLDPMerge ==
    /\ pc = "wgWait"
    /\ wgWait(wstate)
    /\ LET read == Drained(lldpResultChan) IN
       /\ networkConfigs' = Merge(networkConfigs, read)
       /\ client' = [n \in Links |->
             [client[n] EXCEPT !.consumed =
                 Cardinality({i \in 1..Len(read) : read[i].InterfaceName = n})]]
    /\ lldpResultChan' = << >>
    /\ ctxDone' = TRUE
    /\ pc' = "lldpResults"
    /\ UNCHANGED <<rvars, auxvars, config, result, osvars, linkUpdate, wstate, foundpeers,
                   numConfigured, numTotal, cfgvars, faults, invocation, prev, gaudinet,
                   nfdLabel>>

\* the body of the loop of lldpResults on one record
lldpResultsRecordAlways(nwconfig) ==
    LET r == selectMask30L3Address(nwconfig.portDescription) IN
    [nwconfig EXCEPT !.lldpPeer = r.peer, !.localAddr = r.local]
lldpResultsRecord(nwconfig) ==
    LET r == selectMask30L3Address(nwconfig.portDescription) IN
    IF r.err = "none"
    THEN [nwconfig EXCEPT !.lldpPeer = r.peer, !.localAddr = r.local]
    ELSE nwconfig

AfterGaudiNet(found) ==
    IF config.configure /\ found THEN "configureInterfaces" ELSE "logResults"

\* lldpResults, called by cmdRun
lldpResults ==
    /\ pc = "lldpResults"
    /\ IF \E n \in DOMAIN networkConfigs :
             selectMask30L3Address(networkConfigs[n].portDescription).panic
       THEN /\ pc' = "panic"
            /\ UNCHANGED <<networkConfigs, foundpeers>>
       ELSE LET found == \E n \in DOMAIN networkConfigs :
                   selectMask30L3Address(networkConfigs[n].portDescription).err = "none"
            IN
            /\ networkConfigs' = [n \in DOMAIN networkConfigs |->
                                     lldpResultsRecord(networkConfigs[n])]
            /\ foundpeers' = found
            /\ pc' = IF config.gaudinetfile # "" THEN "WriteGaudiNet"
                     ELSE AfterGaudiNet(found)
    /\ UNCHANGED <<rvars, auxvars, config, result, osvars, linkUpdate, lldpvars, numConfigured,
                   numTotal, cfgvars, faults, invocation, prev, gaudinet, nfdLabel>>

\* net.IP.String()
IPString(ip) ==
    IF ip = NilIP THEN "<nil>"
    ELSE ToString(ip[1]) \o "." \o ToString(ip[2]) \o "." \o
         ToString(ip[3]) \o "." \o ToString(ip[4])

\* GenerateGaudiNet: the records its loop skips with a warning
skips(nwconfig) == nwconfig.localAddr = NilIP \/ nwconfig.peerHWAddr = NilPtr

\* GenerateGaudiNet: the GaudiNetEntry of a record
GaudiNetEntry(nwconfig) ==
    [Mac |-> nwconfig.localHwAddr, IP |-> IPString(nwconfig.localAddr),
     Mask |-> "255.255.255.252", GatewayMac |-> nwconfig.peerHWAddr]

\* the orders in which a range loop may go through the keys S of a map
Orders(S) ==
    {o \in [1..Cardinality(S) -> S] : \A i, j \in 1..Cardinality(S) : o[i] = o[j] => i = j}

\* GenerateGaudiNet: the Config slices its loop may build
GaudiNetConfigs(nwconfigs) ==
    {[i \in 1..Len(o) |-> GaudiNetEntry(nwconfigs[o[i]])] :
        o \in Orders({n \in DOMAIN nwconfigs : ~skips(nwconfigs[n])})}

Quote(str) == "\"" \o str \o "\""

\* json.Marshal of a GaudiNetEntry: the fields in the order of the struct,
\* under the names of their json tags
MarshalEntryMacLast(e) ==
    "{" \o Quote("NIC_IP") \o ":" \o Quote(e.IP) \o "," \o
           Quote("SUBNET_MASK") \o ":" \o Quote(e.Mask) \o "," \o
           Quote("GATEWAY_MAC") \o ":" \o Quote(e.GatewayMac) \o "," \o
           Quote("NIC_MAC") \o ":" \o Quote(e.Mac) \o "}"
MarshalEntry(e) ==
    "{" \o Quote("NIC_MAC") \o ":" \o Quote(e.Mac) \o "," \o
           Quote("NIC_IP") \o ":" \o Quote(e.IP) \o "," \o
           Quote("SUBNET_MASK") \o ":" \o Quote(e.Mask) \o "," \o
           Quote("GATEWAY_MAC") \o ":" \o Quote(e.GatewayMac) \o "}"

RECURSIVE MarshalEntries(_)
MarshalEntries(c) ==
    IF c = << >> THEN ""
    ELSE MarshalEntry(Head(c)) \o
         (IF Tail(c) = << >> THEN "" ELSE "," \o MarshalEntries(Tail(c)))

\* json.Marshal of a GaudiNet
JsonMarshal(c) == "{" \o Quote("NIC_NET_CONFIG") \o ":[" \o MarshalEntries(c) \o "]}"

\* GenerateGaudiNet: the GaudiNet it may build and the bytes returned for it
GenerateGaudiNet(nwconfigs) ==
    {[Config |-> c, contents |-> JsonMarshal(c)] : c \in GaudiNetConfigs(nwconfigs)}

\* what cmdRun returns after WriteGaudiNet returned err:
\* "if err != nil { klog.Errorf(...) }", and the run goes on
gaudinetErrorReturned(err) == err
gaudinetErrorLogged(err) == "nil"

\* WriteGaudiNet as cmdRun calls it
WriteGaudiNet ==
    /\ pc = "WriteGaudiNet"
    /\ IF config.gaudinetfile = ""
       THEN /\ gaudinetErr' = "no file name when saving gaudinet.json"
            /\ UNCHANGED <<gaudinet, faults>>
       ELSE \/ \E g \in GenerateGaudiNet(networkConfigs) :
                  /\ gaudinet' = [exists |-> TRUE, Config |-> g.Config,
                                   contents |-> g.contents]
                  /\ gaudinetErr' = "nil"
                  /\ UNCHANGED faults
            \/ /\ faults < MaxFaults        \* JsonMarshal or os.WriteFile fails
               /\ faults' = faults + 1
               /\ gaudinetErr' \in {"Could not marshal json", "os.WriteFile failed"}
               /\ UNCHANGED gaudinet
    /\ LET ret == gaudinetErrorLogged(gaudinetErr') IN
       IF ret = "nil"
       THEN pc' = AfterGaudiNet(foundpeers) /\ UNCHANGED result
       ELSE pc' = "exit" /\ result' = ret
    /\ UNCHANGED <<rvars, extvars, waitvars, mtuvars, networkdvars, config, osvars, networkConfigs,
                   linkUpdate, lldpvars, foundpeers, numConfigured, numTotal, cfgvars,
                   invocation, prev, nfdLabel>>

\* cmdRun from logResults to the check of the configured count
logResults ==
    /\ pc = "logResults"
    /\ IF ~config.configure
       THEN /\ pc' = "interfacesRestoreDown"
            /\ UNCHANGED result
       ELSE IF config.mode = "L3" /\ numConfigured < numTotal
       THEN /\ result' = "Not all interfaces were configured"
            /\ pc' = "exit"
       ELSE /\ pc' = "keepRunning"
            /\ UNCHANGED result
    /\ UNCHANGED <<rvars, auxvars, config, osvars, networkConfigs, linkUpdate, lldpvars, foundpeers,
                   numConfigured, numTotal, cfgvars, faults, invocation, prev, gaudinet,
                   nfdLabel>>

\* interfacesRestoreDown: the records it calls LinkSetDown for
\* (origState&net.FlagUp == 0 && link.Attrs().Flags&net.FlagUp != 0)
setsEveryUpLinkDown(nwconfig) == nwconfig.flagsUp
setsLinkDown(nwconfig) == ~nwconfig.origState /\ nwconfig.flagsUp

\* interfacesRestoreDown up to the call of waitLinkResponse
interfacesRestoreDown ==
    /\ pc = "interfacesRestoreDown"
    /\ LET cand == {n \in DOMAIN networkConfigs : setsLinkDown(networkConfigs[n])}
       IN
       \E subscribeErr \in BOOLEAN, failed \in SUBSET cand :
          LET nf == Cardinality(failed) + (IF subscribeErr THEN 1 ELSE 0) IN
          /\ faults + nf <= MaxFaults
          /\ faults' = faults + nf
          /\ osUp' = [n \in Links |-> osUp[n] /\ n \notin cand \ failed]
          /\ calls' = [n \in Links |->
                IF n \in cand THEN [calls[n] EXCEPT !.LinkSetDown = @ + 1] ELSE calls[n]]
          /\ IF subscribeErr
             THEN /\ result' = "LinkSubscribe failed"
                  /\ pc' = "exit"
                  /\ linkUpdate' = {}
             ELSE /\ pc' = "waitDown"
                  /\ linkUpdate' = cand \ failed
                  /\ UNCHANGED result
    /\ UNCHANGED <<rvars, auxvars, config, osAddrs, osRoutes, networkConfigs, lldpvars, foundpeers,
                   numConfigured, numTotal, visited, configured, invocation, prev,
                   gaudinet, nfdLabel>>

\* cmdRun, the end: the readiness label and the idle loop, or return nil
keepRunning ==
    /\ pc = "keepRunning"
    /\ IF config.configure /\ config.keepRunning
       THEN \/ /\ pc' = "idle"                  \* no features.d directory
               /\ UNCHANGED <<result, nfdLabel, faults>>
            \/ /\ pc' = "idle"
               /\ nfdLabel' = TRUE
               /\ UNCHANGED <<result, faults>>
            \/ /\ faults < MaxFaults            \* os.WriteFile fails
               /\ faults' = faults + 1
               /\ result' = "Failed to write NFD label"
               /\ pc' = "exit"
               /\ UNCHANGED nfdLabel
       ELSE /\ result' = "nil"
            /\ pc' = "exit"
            /\ UNCHANGED <<nfdLabel, faults>>
    /\ UNCHANGED <<rvars, auxvars, config, osvars, networkConfigs, linkUpdate, lldpvars, foundpeers,
                   numConfigured, numTotal, cfgvars, invocation, prev, gaudinet>>

\* cmdRun idles in "for { time.Sleep(time.Second) }" and a termination
\* signal arrives: no handler is installed (there is no signal.Notify), so
\* the Go runtime ends the process where it is, and nothing of cmdRun runs
\* after the loop
terminated ==
    /\ pc = "idle"
    /\ pc' = "killed"
    /\ UNCHANGED <<rvars, auxvars, config, result, osvars, networkConfigs, linkUpdate,
                   lldpvars, foundpeers, numConfigured, numTotal, cfgvars, faults,
                   invocation, prev, gaudinet, nfdLabel>>

Next ==
    \/ getConfig
    \/ getNetworkConfigs
    \/ interfacesUp
    \/ \E n \in Names : waitLinkResponseUpdate(n)
    \/ \E n \in Names : waitLinkResponseOther(n)
    \/ waitLinkResponseTick
    \/ waitLinkResponseReturn
    \/ detectLLDP
    \/ ctxTimeout
    \/ \E n \in Links : lldpClientOpen(n)
    \/ \E n \in Links : lldpClientEOF(n)
    \/ \E n \in Links : lldpClientMatch(n)
    \/ \E n \in Links : lldpClientCancelled(n)
    \/ \E n \in Links : lldpClientFails(n)
    \/ detectLLDPMerge
    \/ lldpResults
    \/ WriteGaudiNet
    \/ \E n \in Links : configureInterfacesStep(n)
    \/ configureInterfacesReturn
    \/ logResults
    \/ interfacesRestoreDown
    \/ keepRunning
    \/ terminated

Spec == Init /\ [][Next]_vars

---------------------------------------------------------------------------
(* The systemd-networkd export *)

\* checkNetworkConfig: the error it returns ("nil": none)
checksAddressOnly(ifname, nwconfig) ==
    IF nwconfig.localAddr = NilIP THEN "no local address for " \o ifname ELSE "nil"
checkNetworkConfig(ifname, nwconfig) ==
    IF ~nwconfig.link THEN "no link information for " \o ifname
    ELSE IF nwconfig.localAddr = NilIP THEN "no local address for " \o ifname
    ELSE IF nwconfig.localHwAddr = "" THEN "no local hw address for " \o ifname
    ELSE "nil"

\* writeNetwork: the contents of the unit file of an interface
networkContents(ifname, nwconfig) ==
    "[Match]\n" \o
    "MACAddress=" \o nwconfig.localHwAddr \o "\n" \o
    "\n" \o
    "[Network]\n" \o
    "Description=Networkd configuration for " \o ifname \o " created by network-operator\n" \o
    "Address=" \o IPString(nwconfig.localAddr) \o "/" \o ToString(RouteMaskPointToPoint) \o "\n" \o
    "\n" \o
    "[Route]\n" \o
    "Destination=" \o IPString(Mask(nwconfig.localAddr, RouteMaskRoutedNetwork)) \o "/" \o
        ToString(RouteMaskRoutedNetwork) \o "\n"

\* WriteSystemdNetworkd: configured = append(configured, ifname)
appendConfigured(list, ifname) == Append(list, ifname)

\* DeleteSystemdNetworkd: the files after os.Remove was called for every
\* name of the list and failed for the names in failed
DeletesNothing(files, list, failed) == files
DeleteSystemdNetworkd(files, list, failed) ==
    [n \in DOMAIN files |->
        IF (\E i \in DOMAIN list : list[i] = n) /\ n \notin failed THEN NoFile ELSE files[n]]

\* the os.Remove calls of DeleteSystemdNetworkd, in the order of the list
RemoveLog(list, failed) ==
    [i \in DOMAIN list |-> [op |-> "remove", ifname |-> list[i], ok |-> list[i] \notin failed]]

\* WriteSystemdNetworkd: the first loop, checkNetworkConfig on every record
WriteSystemdNetworkdCheck ==
    /\ pc = "WriteSystemdNetworkd"
    /\ LET bad == {n \in DOMAIN networkConfigs :
                     checkNetworkConfig(n, networkConfigs[n]) # "nil"}
       IN  IF bad # {}
           THEN /\ \E n \in bad :
                      networkdRet' = [returned |-> TRUE, isNil |-> TRUE, configured |-> << >>,
                                      err |-> checkNetworkConfig(n, networkConfigs[n])]
                /\ pc' = "exit"
           ELSE /\ pc' = "writeNetwork"
                /\ UNCHANGED networkdRet
    /\ networkdConfigured' = << >>
    /\ UNCHANGED <<rvars, extvars, waitvars, mtuvars, exportvars, networkdDir, networkdFiles,
                   networkdLog, config, result, osvars, networkConfigs, linkUpdate, lldpvars,
                   foundpeers, numConfigured, numTotal, cfgvars, faults, invocation, prev,
                   gaudinet, nfdLabel>>

\* WriteSystemdNetworkd: one round of the second loop.  writeNetwork
\* writes the file, or os.WriteFile fails (always without the directory):
\* then the files of configured are removed and the call returns nil and
\* the error
WriteSystemdNetworkdWrite(n) ==
    /\ pc = "writeNetwork"
    /\ n \in DOMAIN networkConfigs
    /\ \A i \in DOMAIN networkdConfigured : networkdConfigured[i] # n
    /\ \/ /\ networkdDir
          /\ networkdFiles' = [networkdFiles EXCEPT ![n] =
                [exists |-> TRUE, contents |-> networkContents(n, networkConfigs[n])]]
          /\ networkdLog' = Append(networkdLog, [op |-> "write", ifname |-> n, ok |-> TRUE])
          /\ networkdConfigured' = appendConfigured(networkdConfigured, n)
          /\ UNCHANGED <<faults, networkdRet, pc>>
       \/ \E truncated \in BOOLEAN, failed \in SUBSET DOMAIN networkConfigs :
          LET nf == (IF networkdDir THEN 1 ELSE 0) + Cardinality(failed) IN
          /\ networkdDir \/ ~truncated
          /\ \A m \in failed : \E i \in DOMAIN networkdConfigured : networkdConfigured[i] = m
          /\ faults + nf <= MaxFaults
          /\ faults' = faults + nf
          /\ networkdFiles' =
                DeleteSystemdNetworkd(
                    IF truncated
                    THEN [networkdFiles EXCEPT ![n] = [exists |-> TRUE, contents |-> ""]]
                    ELSE networkdFiles,
                    networkdConfigured, failed)
          /\ networkdLog' = Append(networkdLog, [op |-> "write", ifname |-> n, ok |-> FALSE])
                                \o RemoveLog(networkdConfigured, failed)
          /\ networkdRet' = [returned |-> TRUE, isNil |-> TRUE, configured |-> << >>,
                             err |-> "could not write networkd config file"]
          /\ pc' = "exit"
          /\ UNCHANGED networkdConfigured
    /\ UNCHANGED <<rvars, extvars, waitvars, mtuvars, exportvars, networkdDir, config, result, osvars,
                   networkConfigs, linkUpdate, lldpvars, foundpeers, numConfigured, numTotal,
                   cfgvars, invocation, prev, gaudinet, nfdLabel>>

\* WriteSystemdNetworkd: return configured, nil
WriteSystemdNetworkdReturn ==
    /\ pc = "writeNetwork"
    /\ \A n \in DOMAIN networkConfigs :
          \E i \in DOMAIN networkdConfigured : networkdConfigured[i] = n
    /\ networkdRet' = [returned |-> TRUE, isNil |-> FALSE, configured |-> networkdConfigured,
                       err |-> "nil"]
    /\ pc' = "exit"
    /\ UNCHANGED <<rvars, extvars, waitvars, mtuvars, exportvars, networkdDir, networkdFiles,
                   networkdLog, networkdConfigured, config, result, osvars, networkConfigs,
                   linkUpdate, lldpvars, foundpeers, numConfigured, numTotal, cfgvars, faults,
                   invocation, prev, gaudinet, nfdLabel>>

---------------------------------------------------------------------------
(* Link-state harness: a discovery-only L2 run from interfacesUp to its   *)
(* return, with time passing while waitLinkResponse blocks.  Time         *)
(* advances, and a select whose timer has fired is left; nothing is       *)
(* assumed about the updates the kernel sends.                            *)

WaitInit ==
    /\ rdesc = << >>
    /\ rres = Pending
    /\ pc = "interfacesUp"
    /\ osUp \in [Links -> BOOLEAN]
    /\ osAddrs = [n \in Links |-> {}]
    /\ osRoutes = [n \in Links |-> {}]
    /\ \E ifaces \in SUBSET Names, keep \in BOOLEAN :
          /\ ifaces \cap Links # {}
          /\ config = [ifaces |-> ifaces, mode |-> "L2", configure |-> FALSE,
                       gaudinetfile |-> "", keepRunning |-> keep]
          /\ networkConfigs = getNetworkConfigsFor(ifaces)
          /\ numTotal = Cardinality(ifaces \cap Links)
    /\ result = "none"
    /\ linkUpdate = {}
    /\ wstate = [n \in Links |-> "none"]
    /\ lldpResultChan = << >>
    /\ client = [n \in Links |-> NoClient]
    /\ ctxDone = FALSE
    /\ foundpeers = FALSE
    /\ numConfigured = 0
    /\ visited = {}
    /\ configured = 0
    /\ calls = NoCalls
    /\ faults = 0
    /\ invocation = 0
    /\ prev = << >>
    /\ gaudinet = NoFile
    /\ nfdLabel = FALSE
    /\ AuxIdle
    /\ ExtIdle

WaitNext ==
    \/ interfacesUp
    \/ \E n \in Names : waitLinkResponseUpdate(n)
    \/ \E n \in Names : waitLinkResponseOther(n)
    \/ waitLinkResponseTick
    \/ waitLinkResponseReturn
    \/ logResults
    \/ interfacesRestoreDown
    \/ keepRunning

WaitFairness ==
    /\ WF_vars(interfacesUp)
    /\ WF_vars(waitLinkResponseTick)
    /\ WF_vars(waitLinkResponseReturn)
    /\ WF_vars(logResults)
    /\ WF_vars(interfacesRestoreDown)
    /\ WF_vars(keepRunning)

SpecWait == WaitInit /\ [][WaitNext]_vars /\ WaitFairness

---------------------------------------------------------------------------
(* MTU harness: the run after interfacesUp, with an MTU requested or not *)

SampleMTUs == {0, 1200, 1499, 1500, 4000, 9000, 9001, 12000}

MtuInit ==
    /\ rdesc = << >>
    /\ rres = Pending
    /\ pc = "setMTU"
    /\ osUp = [n \in Links |-> TRUE]
    /\ osAddrs = [n \in Links |-> {}]
    /\ osRoutes = [n \in Links |-> {}]
    /\ \E ifaces \in SUBSET Names :
          /\ ifaces \cap Links # {}
          /\ config = [ifaces |-> ifaces, mode |-> "L3", configure |-> TRUE,
                       gaudinetfile |-> "", keepRunning |-> FALSE]
          /\ networkConfigs = getNetworkConfigsFor(ifaces)
          /\ numTotal = Cardinality(ifaces \cap Links)
    /\ result = "none"
    /\ linkUpdate = {}
    /\ wstate = [n \in Links |-> "none"]
    /\ lldpResultChan = << >>
    /\ client = [n \in Links |-> NoClient]
    /\ ctxDone = FALSE
    /\ foundpeers = FALSE
    /\ numConfigured = 0
    /\ visited = {}
    /\ configured = 0
    /\ calls = NoCalls
    /\ faults = 0
    /\ invocation = 0
    /\ prev = << >>
    /\ gaudinet = NoFile
    /\ nfdLabel = FALSE
    /\ timer = 0
    /\ waitErr = "none"
    /\ ExportIdle
    /\ ExtIdle
    /\ mtu \in SampleMTUs
    /\ osMTU \in [Links -> {MinMTU, MaxMTU}]
    /\ mtuCalls = [n \in Links |-> << >>]

MtuNext == setMTU

SpecMTU == MtuInit /\ [][MtuNext]_vars

---------------------------------------------------------------------------
(* configureInterfaces harness: the function is invoked, up to            *)
(* MaxInvocations times, on the records lldpResults leaves and on the     *)
(* kernel state the invocation before it (or an earlier run) left.        *)

MaxInvocations == 2

LocalIP(n) == IF n = "eth_a" THEN IPv4(10, 210, 8, 121) ELSE IPv4(10, 210, 8, 125)

\* addresses a link may carry before the first invocation
InitialAddrs(n) ==
    IF n = "eth_a"
    THEN {as \in SUBSET {Unrelated, Unrelated2, Addr(LocalIP(n), 30), Addr(LocalIP(n), 24)} :
             Cardinality(as) <= 2}
    ELSE {{}, {Unrelated}, {Addr(LocalIP(n), 30)}}

\* routes a link may have before the first invocation
InitialRoutes(n) ==
    LET r30 == KernelRoute(Addr(LocalIP(n), 30))
        r16 == [dst |-> Mask(LocalIP(n), 16), bits |-> 16, gw |-> PeerIP(n), src |-> NilIP,
                protocol |-> "unspec", scope |-> "universe"]
    IN  IF n = "eth_a" THEN {{}, {r30}, {r30, r16}} ELSE {{}, {r30, r16}}

\* the port descriptions detectLLDP may have left in a record
Descriptions(n) ==
    {<< >>} \cup {d \in {f.PortDescription : f \in Frames(n)} : ~selectMask30L3Address(d).panic}

ConfigureInit ==
    /\ rdesc = << >>
    /\ rres = Pending
    /\ pc = "configureInterfaces"
    /\ osUp = [n \in Links |-> TRUE]
    /\ osAddrs \in [Links -> UNION {InitialAddrs(n) : n \in Links}]
    /\ \A n \in Links : osAddrs[n] \in InitialAddrs(n)
    /\ osRoutes \in [Links -> UNION {InitialRoutes(n) : n \in Links}]
    /\ \A n \in Links : osRoutes[n] \in InitialRoutes(n)
    /\ config = [ifaces |-> Links, mode |-> "L3", configure |-> TRUE, gaudinetfile |-> "",
                 keepRunning |-> FALSE]
    /\ result = "none"
    /\ \E d \in [Links -> UNION {Descriptions(n) : n \in Links}] :
          /\ \A n \in Links : d[n] \in Descriptions(n)
          /\ networkConfigs =
                [n \in Links |->
                    lldpResultsRecord([NewRecord(n, TRUE) EXCEPT
                        !.portDescription = d[n],
                        !.peerHWAddr = IF d[n] = << >> THEN NilPtr ELSE "06:05:04:03:02:01"])]
    /\ \E n \in Links : networkConfigs[n].localAddr # NilIP     \* foundpeers
    /\ foundpeers = TRUE
    /\ linkUpdate = {}
    /\ wstate = [n \in Links |-> "none"]
    /\ lldpResultChan = << >>
    /\ client = [n \in Links |-> NoClient]
    /\ ctxDone = FALSE
    /\ numConfigured = 0
    /\ numTotal = Cardinality(Links)
    /\ visited = {}
    /\ configured = 0
    /\ calls = NoCalls
    /\ faults = 0
    /\ invocation = 1
    /\ prev = [addrs |-> osAddrs, routes |-> osRoutes, numConfigured |-> -1, faults |-> 0]
    /\ gaudinet = NoFile
    /\ nfdLabel = FALSE
    /\ AuxIdle
    /\ ExtIdle

\* the next run reaches configureInterfaces with the same records
Reinvoke ==
    /\ pc = "logResults"
    /\ invocation >= 1
    /\ invocation < MaxInvocations
    /\ invocation' = invocation + 1
    /\ prev' = [addrs |-> osAddrs, routes |-> osRoutes, numConfigured |-> numConfigured,
                faults |-> faults]
    /\ visited' = {}
    /\ configured' = 0
    /\ calls' = NoCalls
    /\ pc' = "configureInterfaces"
    /\ UNCHANGED <<rvars, auxvars, config, result, osvars, networkConfigs, linkUpdate, lldpvars,
                   foundpeers, numConfigured, numTotal, faults, gaudinet, nfdLabel>>

ConfigureNext ==
    \/ \E n \in Links : configureInterfacesStep(n)
    \/ configureInterfacesReturn
    \/ Reinvoke

SpecConfigure == ConfigureInit /\ [][ConfigureNext]_vars

---------------------------------------------------------------------------
(* gaudinet harness: WriteGaudiNet called on records with or without a    *)
(* local address and peer address, with or without a file name.           *)

PeerMACs(n) == {NilPtr, "", IF n = "eth_a" THEN "06:05:04:03:02:0a" ELSE "06:05:04:03:02:0b"}

\* a record as fakenetworkconfigs builds it, or with a field missing
GaudiNetRecords(n) ==
    {[NewRecord(n, TRUE) EXCEPT !.localAddr = l, !.lldpPeer = PeerIP(n), !.peerHWAddr = m] :
        l \in {NilIP, LocalIP(n)}, m \in PeerMACs(n)}

GaudiNetInit ==
    /\ rdesc = << >>
    /\ rres = Pending
    /\ pc = "WriteGaudiNet"
    /\ osUp = [n \in Links |-> TRUE]
    /\ osAddrs = [n \in Links |-> {}]
    /\ osRoutes = [n \in Links |-> {}]
    /\ \E ifaces \in SUBSET Links, file \in {"", "gaudinet.json"} :
          /\ config = [ifaces |-> ifaces, mode |-> "L3", configure |-> FALSE,
                       gaudinetfile |-> file, keepRunning |-> FALSE]
          /\ networkConfigs \in [ifaces -> UNION {GaudiNetRecords(n) : n \in Links}]
          /\ \A n \in ifaces : networkConfigs[n] \in GaudiNetRecords(n)
          /\ numTotal = Cardinality(ifaces)
    /\ foundpeers = \E n \in DOMAIN networkConfigs : networkConfigs[n].localAddr # NilIP
    /\ result = "none"
    /\ linkUpdate = {}
    /\ wstate = [n \in Links |-> "none"]
    /\ lldpResultChan = << >>
    /\ client = [n \in Links |-> NoClient]
    /\ ctxDone = FALSE
    /\ numConfigured = 0
    /\ visited = {}
    /\ configured = 0
    /\ calls = NoCalls
    /\ faults = 0
    /\ invocation = 0
    /\ prev = << >>
    /\ gaudinet = NoFile
    /\ nfdLabel = FALSE
    /\ AuxIdle
    /\ ExtIdle

GaudiNetNext == WriteGaudiNet

SpecGaudiNet == GaudiNetInit /\ [][GaudiNetNext]_vars

---------------------------------------------------------------------------
(* systemd-networkd harness: WriteSystemdNetworkd called on a batch of    *)
(* records, complete or not, with or without the directory and with or    *)
(* without unit files of an earlier call in it.                           *)

OldFile == [exists |-> TRUE, contents |-> "nothing to see here\n"]

\* a record after lldpResults, or one with a part missing
NetworkdRecords(n) ==
    {[NewRecord(n, TRUE) EXCEPT !.link = k, !.localAddr = l, !.localHwAddr = h] :
        k \in BOOLEAN, l \in {NilIP, LocalIP(n)}, h \in {"", HwAddr(n)}}

NetworkdInit ==
    /\ rdesc = << >>
    /\ rres = Pending
    /\ pc = "WriteSystemdNetworkd"
    /\ osUp = [n \in Links |-> TRUE]
    /\ osAddrs = [n \in Links |-> {}]
    /\ osRoutes = [n \in Links |-> {}]
    /\ \E ifaces \in SUBSET Links :
          /\ config = [ifaces |-> ifaces, mode |-> "L3", configure |-> TRUE,
                       gaudinetfile |-> "", keepRunning |-> FALSE]
          /\ networkConfigs \in [ifaces -> UNION {NetworkdRecords(n) : n \in Links}]
          /\ \A n \in ifaces : networkConfigs[n] \in NetworkdRecords(n)
          /\ numTotal = Cardinality(ifaces)
    /\ foundpeers = \E n \in DOMAIN networkConfigs : networkConfigs[n].localAddr # NilIP
    /\ result = "none"
    /\ linkUpdate = {}
    /\ wstate = [n \in Links |-> "none"]
    /\ lldpResultChan = << >>
    /\ client = [n \in Links |-> NoClient]
    /\ ctxDone = FALSE
    /\ numConfigured = 0
    /\ visited = {}
    /\ configured = 0
    /\ calls = NoCalls
    /\ faults = 0
    /\ invocation = 0
    /\ prev = << >>
    /\ gaudinet = NoFile
    /\ nfdLabel = FALSE
    /\ timer = 0
    /\ waitErr = "none"
    /\ MtuIdle
    /\ ExtIdle
    /\ gaudinetErr = "none"
    /\ networkdDir \in BOOLEAN
    /\ networkdFiles \in [Links -> {NoFile, OldFile}]
    /\ ~networkdDir => networkdFiles = [n \in Links |-> NoFile]
    /\ networkdLog = << >>
    /\ networkdConfigured = << >>
    /\ networkdRet = NoReturn

NetworkdNext ==
    \/ WriteSystemdNetworkdCheck
    \/ \E n \in Links : WriteSystemdNetworkdWrite(n)
    \/ WriteSystemdNetworkdReturn

SpecNetworkd == NetworkdInit /\ [][NetworkdNext]_vars

---------------------------------------------------------------------------
(* detectLLDP on its own: the goroutines, their clients, the deadline and  *)
(* the merge, followed by lldpResults.  The Go scheduler runs a goroutine  *)
(* that can step, the deadline of timeoutctx passes, and a select that is  *)
(* entered again and again with ctx.Done() ready takes that case.          *)

DetectInit ==
    /\ rdesc = << >>
    /\ rres = Pending
    /\ pc = "detectLLDP"
    /\ osUp \in [Links -> BOOLEAN]
    /\ osAddrs = [n \in Links |-> {}]
    /\ osRoutes = [n \in Links |-> {}]
    /\ config = [ifaces |-> Links, mode |-> "L3", configure |-> FALSE, gaudinetfile |-> "",
                 keepRunning |-> FALSE]
    /\ result = "none"
    /\ networkConfigs = [n \in Links |-> NewRecord(n, osUp[n])]
    /\ linkUpdate = {}
    /\ wstate = [n \in Links |-> "none"]
    /\ lldpResultChan = << >>
    /\ client = [n \in Links |-> NoClient]
    /\ ctxDone = FALSE
    /\ foundpeers = FALSE
    /\ numConfigured = 0
    /\ numTotal = Cardinality(Links)
    /\ visited = {}
    /\ configured = 0
    /\ calls = NoCalls
    /\ faults = 0
    /\ invocation = 0
    /\ prev = << >>
    /\ gaudinet = NoFile
    /\ nfdLabel = FALSE
    /\ AuxIdle
    /\ ExtIdle

DetectNext ==
    \/ detectLLDP
    \/ ctxTimeout
    \/ \E n \in Links : lldpClientOpen(n)
    \/ \E n \in Links : lldpClientFails(n)
    \/ \E n \in Links : lldpClientEOF(n)
    \/ \E n \in Links : lldpClientMatch(n)
    \/ \E n \in Links : lldpClientCancelled(n)
    \/ detectLLDPMerge
    \/ lldpResults

DetectFairness ==
    /\ WF_vars(detectLLDP)
    /\ WF_vars(ctxTimeout)
    /\ WF_vars(detectLLDPMerge)
    /\ WF_vars(lldpResults)
    /\ \A n \in Links : WF_vars(lldpClientOpen(n) \/ lldpClientFails(n))
    /\ \A n \in Links : SF_vars(lldpClientCancelled(n))

SpecDetect == DetectInit /\ [][DetectNext]_vars /\ DetectFairness

---------------------------------------------------------------------------
(* Resolver harness: every description up to MaxDescLen items *)

MaxDescLen == 4

PrefixLens == {16, 30, 33}
Prefix3 == <<10, 210, 8>>

\* shapes of a description: C is the slot of the IPv4 CIDR literal
Shapes == UNION {[1..n -> {"S", "T", "W", "C", "M", "X"}] : n \in 0..MaxDescLen}

Fill(shape, o, bits) ==
    [i \in 1..Len(shape) |->
        CASE shape[i] = "S" -> SP
          [] shape[i] = "T" -> TAB
          [] shape[i] = "W" -> Text("no-alert")
          [] shape[i] = "C" -> Cidr("v4", IPv4(Prefix3[1], Prefix3[2], Prefix3[3], o), bits)
          [] shape[i] = "M" -> Cidr("v4in6", IPv4(Prefix3[1], Prefix3[2], Prefix3[3], o), bits)
          [] OTHER          -> Cidr("v6", V6Addr, bits)]

Octets == 0..255
SampleOctets == {0, 122, 125, 255}

\* "<token> <ipv4>/<bits>" with every last octet, and every shape with some
ResolveInit ==
    /\ \/ \E o \in Octets, bits \in PrefixLens : rdesc = Fill(<<"W", "S", "C">>, o, bits)
       \/ \E shape \in Shapes, o \in SampleOctets, bits \in PrefixLens :
             rdesc = Fill(shape, o, bits)
    /\ rres = Pending
    /\ pc = "resolver"
    /\ osUp = [n \in Links |-> FALSE]
    /\ osAddrs = [n \in Links |-> {}]
    /\ osRoutes = [n \in Links |-> {}]
    /\ RunIdle
    /\ ExtIdle

Resolve ==
    /\ rres = Pending
    /\ rres' = selectMask30L3Address(rdesc)
    /\ UNCHANGED <<rdesc, runvars>>

ResolveNext == Resolve

SpecResolve == ResolveInit /\ [][ResolveNext]_vars

---------------------------------------------------------------------------
(* NetworkManager: DisableNetworkManagerForInterfaces called on a          *)
(* NetworkManager that answers or fails each call.                         *)

\* the state of the discover command, which the other programs of the
\* repository leave alone
discovervars == <<rvars, pc, config, result, osvars, networkConfigs, linkUpdate, lldpvars,
                  foundpeers, numConfigured, numTotal, cfgvars, faults, invocation,
                  prev, gaudinet, nfdLabel, waitvars, mtuvars, exportvars, networkdvars>>

\* the discover command has not been started
NotStarted ==
    /\ rdesc = << >>
    /\ rres = Pending
    /\ pc = "getConfig"
    /\ osUp = [n \in Links |-> FALSE]
    /\ osAddrs = [n \in Links |-> {}]
    /\ osRoutes = [n \in Links |-> {}]
    /\ RunIdle

\* a call of the NetworkManagerIf or DeviceWrapperIf interface (dev: the
\* position of the device, 0 for NetworkManager itself) and its error
NmCall(op, dev, err) == [op |-> op, dev |-> dev, err |-> err]

\* slices.Contains(interfaces, netif)
ContainsAny(interfaces, netif) == TRUE
Contains(interfaces, netif) == netif \in interfaces

\* _, err := nm.GetPropertyVersion(): on an error, return nil
nmGetPropertyVersion ==
    /\ nmPc = "GetPropertyVersion"
    /\ \E err \in {"nil", "os.ErrInvalid"} :
          /\ nmCalls' = Append(nmCalls, NmCall("GetPropertyVersion", 0, err))
          /\ IF err # "nil"
             THEN nmPc' = "return" /\ nmRet' = "nil"
             ELSE nmPc' = "GetAllDevices" /\ UNCHANGED nmRet
    /\ UNCHANGED <<discovervars, sysfsvars, reconcilevars, nmInterfaces, nmDevices, nmPos>>

\* devices, err := nm.GetAllDevices(): on an error, return err
nmGetAllDevices ==
    /\ nmPc = "GetAllDevices"
    /\ \E err \in {"nil", "os.ErrDeadlineExceeded"} :
          /\ nmCalls' = Append(nmCalls, NmCall("GetAllDevices", 0, err))
          /\ IF err # "nil"
             THEN nmPc' = "return" /\ nmRet' = err /\ UNCHANGED nmPos
             ELSE nmPc' = "range" /\ nmPos' = 1 /\ UNCHANGED nmRet
    /\ UNCHANGED <<discovervars, sysfsvars, reconcilevars, nmInterfaces, nmDevices>>

\* one round of "for _, device := range devices", or the return nil after it
nmRange ==
    /\ nmPc = "range"
    /\ IF nmPos > Len(nmDevices)
       THEN /\ nmPc' = "return"
            /\ nmRet' = "nil"
            /\ UNCHANGED <<nmDevices, nmPos, nmCalls>>
       ELSE \E ierr \in {"nil", "os.ErrPermission"}, merr \in {"nil", "os.ErrProcessDone"} :
            LET get == NmCall("GetPropertyInterface", nmPos, ierr)
                set == NmCall("SetPropertyManaged", nmPos, merr)
            IN  IF ierr # "nil"
                THEN /\ nmCalls' = Append(nmCalls, get)
                     /\ nmPc' = "return"
                     /\ nmRet' = ierr
                     /\ UNCHANGED <<nmDevices, nmPos>>
                ELSE IF ~Contains(nmInterfaces, nmDevices[nmPos].iface)
                THEN /\ merr = "nil"
                     /\ nmCalls' = Append(nmCalls, get)
                     /\ nmPos' = nmPos + 1
                     /\ UNCHANGED <<nmDevices, nmPc, nmRet>>
                ELSE IF merr # "nil"
                THEN /\ nmCalls' = nmCalls \o <<get, set>>
                     /\ nmPc' = "return"
                     /\ nmRet' = merr
                     /\ UNCHANGED <<nmDevices, nmPos>>
                ELSE /\ nmCalls' = nmCalls \o <<get, set>>
                     /\ nmDevices' = [nmDevices EXCEPT ![nmPos].managed = FALSE]
                     /\ nmPos' = nmPos + 1
                     /\ UNCHANGED <<nmPc, nmRet>>
    /\ UNCHANGED <<discovervars, sysfsvars, reconcilevars, nmInterfaces>>

\* the devices NetworkManager may have: up to two, of different interfaces
NmDeviceLists ==
    LET D == [iface : {"eth_a", "eth_b", "lo"}, managed : BOOLEAN]
    IN  {<< >>} \cup {<<d>> : d \in D} \cup
        {l \in {<<d, e>> : d \in D, e \in D} : l[1].iface # l[2].iface}

NmInit ==
    /\ NotStarted
    /\ nmPc = "GetPropertyVersion"
    /\ nmInterfaces \in {{}, {"eth_a"}, {"eth_a", "eth_b"}}
    /\ nmDevices \in NmDeviceLists
    /\ nmPos = 0
    /\ nmCalls = << >>
    /\ nmRet = "none"
    /\ SysfsIdle
    /\ ReconcileIdle

NmNext ==
    \/ nmGetPropertyVersion
    \/ nmGetAllDevices
    \/ nmRange

SpecNM == NmInit /\ [][NmNext]_vars

---------------------------------------------------------------------------
(* getNetworks: the interfaces of the devices bound to the driver, read    *)
(* from a sysfs tree.  As in sysfs, the entry of the driver directory      *)
(* named after a PCI device is a symbolic link to the directory of that    *)
(* device, and an interface is the child of one device.                    *)

\* the names in the driver directory that match pciDevicePattern
\* ("????:??:??.?"), in the order filepath.Glob returns them (sorted)
PciDevices == <<"0000:19:00.0", "0000:1a:00.0">>

\* the other entries of the driver directory
DriverFiles == {"bind", "unbind"}

\* interface names, in the order filepath.Glob returns them (sorted)
NetDevices == <<"eth_a", "eth_b", "eth_c">>

Range(seq) == {seq[i] : i \in 1..Len(seq)}

\* filepath.Glob(filepath.Join(sysfsDriverPath(), pciDevicePattern))
GlobPciDevices(rootBad, driver) ==
    IF rootBad THEN [err |-> TRUE, paths |-> << >>]
    ELSE [err |-> FALSE,
          paths |-> SelectSeq(PciDevices,
                       LAMBDA p : driver.exists /\ driver.entries[p] # "none")]

\* filepath.Glob(filepath.Join(devicesymlinktarget, netDevicePattern)) and
\* filepath.Base of what it found
GlobNetDevices(dir) ==
    IF dir.globErr THEN << >>
    ELSE SelectSeq(NetDevices, LAMBDA n : n \in dir.net)

\* getNetworks: what the rest of the loop adds after a path that
\* filepath.EvalSymlinks could not resolve (continue)
returnsOnUnresolved(rest) == << >>
continuesOnUnresolved(rest) == rest

\* getNetworks: "for _, p := range paths"
RECURSIVE rangePaths(_, _, _)
rangePaths(paths, driver, net) ==
    IF paths = << >> THEN << >>
    ELSE LET p == Head(paths)
             rest == rangePaths(Tail(paths), driver, net)
         IN  IF driver.entries[p] = "dangling"
             THEN continuesOnUnresolved(rest)
             ELSE GlobNetDevices(net[p]) \o rest

getNetworksOf(rootBad, driver, net) ==
    LET g == GlobPciDevices(rootBad, driver) IN
    IF g.err THEN << >> ELSE rangePaths(g.paths, driver, net)

getNetworks ==
    /\ ~networks.returned
    /\ networks' = [returned |-> TRUE,
                    habanaNetDevices |-> getNetworksOf(sysfsRootBad, sysfsDriver, sysfsNet)]
    /\ UNCHANGED <<discovervars, nmvars, reconcilevars, sysfsRootBad, sysfsDriver, sysfsNet>>

\* the driver directories: none (the driver is not loaded), or one with
\* bind and unbind and, per PCI device, no entry, a link to the device
\* directory or a link whose device directory is gone
DriverDirs ==
    {NoDir} \cup
    {[exists |-> TRUE,
      entries |-> [e \in Range(PciDevices) \cup DriverFiles |->
                      IF e \in DriverFiles THEN "file" ELSE k[e]]] :
        k \in [Range(PciDevices) -> {"none", "link", "dangling"}]}

SysfsInit ==
    /\ NotStarted
    /\ NmIdle
    /\ ReconcileIdle
    /\ sysfsRootBad \in BOOLEAN
    /\ sysfsDriver \in DriverDirs
    /\ \E a \in SUBSET {"eth_a", "eth_c"}, b \in SUBSET {"eth_b"}, ea, eb \in BOOLEAN :
          sysfsNet = [p \in Range(PciDevices) |->
                         IF p = PciDevices[1] THEN [globErr |-> ea, net |-> a]
                         ELSE [globErr |-> eb, net |-> b]]
    /\ networks = NoReturn

SysfsNext == getNetworks

SpecSysfs == SysfsInit /\ [][SysfsNext]_vars

(***************************************************************************)
(* The NetworkConfiguration reconciler                                     *)
(* (src/internal/controller/networkconfiguration_controller.go).  The API  *)
(* server holds one NetworkConfiguration, netconf, and the DaemonSets it   *)
(* owns, daemonSets.  Reconcile reads both from the API server; what a     *)
(* lagging informer cache would add is behaviour of controller-runtime and *)
(* is not modelled.  lastReconcile records what the last Reconcile issued  *)
(* and returned, and is NoReconcile when an object has changed since.      *)
(***************************************************************************)
MaxReconciles == 4

MaxNodes == 1

gaudiScaleOutSelection == "gaudi-so"

ConfigurationTypes == {gaudiScaleOutSelection, "host-nic"}

Layers == {"L2", "L3", ""}

Images == {"", "intel/my-linkdiscovery:latest"}

NodeSelectors == {{}, {<<"gaudi", "true">>}}

\* what the DaemonSet controller can report: ready pods never exceed
\* the scheduled ones
DaemonSetStatuses ==
    {st \in [DesiredNumberScheduled : 0..MaxNodes, NumberReady : 0..MaxNodes] :
        st.NumberReady <= st.DesiredNumberScheduled}

NetworkConfigurationSpecs ==
    [ConfigurationType : ConfigurationTypes, NodeSelector : NodeSelectors,
     Layer : Layers, Image : Images]

ZeroStatus == [Targets |-> 0, ReadyNodes |-> 0, State |-> ""]

\* daemonsets.GaudiL3BGPDaemonSet(): the pod template of the DaemonSet,
\* reduced to the fields the reconciler writes
GaudiL3BGPDaemonSet ==
    [NodeSelector |-> {}, Image |-> "intel/intel-network-linkdiscovery:devel",
     Args |-> << >>]

updateGaudiScaleOutDaemonSet(template, spec) ==
    [NodeSelector |-> IF Cardinality(spec.NodeSelector) > 0
                      THEN spec.NodeSelector ELSE template.NodeSelector,
     Image |-> IF Len(spec.Image) > 0 THEN spec.Image ELSE template.Image,
     Args |-> IF spec.Layer \in {"L2", "L3", "L3BGP"}
              THEN <<"--layer=" \o spec.Layer>> ELSE << >>]

\* cmp.Diff(original, updated, diff.IgnoreUnset()): a field that is empty
\* in the updated template is not compared, and neither is a map entry
\* the updated template lacks
dsDiff(original, updated) ==
    \/ /\ updated.NodeSelector # {}
       /\ ~(updated.NodeSelector \subseteq original.NodeSelector)
    \/ /\ updated.Image # ""
       /\ updated.Image # original.Image
    \/ /\ updated.Args # << >>
       /\ updated.Args # original.Args

statusAlwaysUpdated(status, ds) == TRUE

statusUpdated(status, ds) ==
    \/ status.Targets # ds.status.DesiredNumberScheduled
    \/ status.ReadyNodes # ds.status.NumberReady

statusOf(ds) ==
    [Targets |-> ds.status.DesiredNumberScheduled,
     ReadyNodes |-> ds.status.NumberReady,
     State |-> IF ds.status.NumberReady < ds.status.DesiredNumberScheduled
               THEN "Working on it.." ELSE "All good"]

ApiFaults == {"none", "Get", "List", "Create", "Update", "StatusUpdate", "Conflict"}

Result(nc, dss, issued, err, requeue) ==
    [netconf |-> nc, daemonSets |-> dss, calls |-> issued, err |-> err,
     requeue |-> requeue]

createDaemonSet(nc, dss, fault) ==
    LET ds == [name |-> nc.name,
               template |-> updateGaudiScaleOutDaemonSet(GaudiL3BGPDaemonSet, nc.spec),
               status |-> [DesiredNumberScheduled |-> 0, NumberReady |-> 0]]
    IN  IF nc.spec.ConfigurationType # gaudiScaleOutSelection
        THEN Result(nc, dss, {}, "os.ErrInvalid", FALSE)
        ELSE IF fault = "Create" \/ \E d \in dss : d.name = ds.name
        THEN Result(nc, dss, {"Create"}, "Create", FALSE)
        ELSE Result(nc, dss \cup {ds}, {"Create"}, "nil", FALSE)

updateStatus(nc, dss, ds, issued, fault) ==
    IF ~statusUpdated(nc.status, ds)
    THEN Result(nc, dss, issued, "nil", FALSE)
    ELSE IF fault = "Conflict"
    THEN Result(nc, dss, issued \cup {"StatusUpdate"}, "nil", TRUE)
    ELSE IF fault = "StatusUpdate"
    THEN Result(nc, dss, issued \cup {"StatusUpdate"}, "StatusUpdate", FALSE)
    ELSE Result([nc EXCEPT !.status = statusOf(ds)], dss,
                  issued \cup {"StatusUpdate"}, "nil", FALSE)

ReconcileOf(nc, dss, fault) ==
    IF fault = "Get"
    THEN Result(nc, dss, {}, "Get", FALSE)
    ELSE IF ~nc.exists
    THEN Result(nc, dss, {}, "nil", FALSE)
    ELSE IF fault = "List"
    THEN Result(nc, dss, {}, "List", FALSE)
    ELSE IF Cardinality(dss) = 0
    THEN createDaemonSet(nc, dss, fault)
    ELSE LET ds == CHOOSE d \in dss : TRUE
             updated == [ds EXCEPT !.name = nc.name,
                            !.template = updateGaudiScaleOutDaemonSet(ds.template, nc.spec)]
         IN  IF nc.spec.ConfigurationType # gaudiScaleOutSelection
             THEN Result(nc, dss, {}, "panic", FALSE)
             ELSE IF ~dsDiff(ds.template, updated.template)
             THEN updateStatus(nc, dss, ds, {}, fault)
             ELSE IF fault = "Update"
             THEN Result(nc, dss, {"Update"}, "Update", FALSE)
             ELSE updateStatus(nc, (dss \ {ds}) \cup {updated}, updated,
                               {"Update"}, fault)

\* what a Reconcile runs after: a successful Reconcile that created the
\* DaemonSet ("create"), another successful one ("sync"), or anything else
After(last) ==
    IF ~last.done THEN "change"
    ELSE IF last.err # "nil" \/ last.requeue THEN "change"
    ELSE IF "Create" \in last.calls THEN "create"
    ELSE "sync"

Reconcile ==
    /\ reconciles < MaxReconciles
    /\ reconciles' = reconciles + 1
    /\ \E fault \in ApiFaults :
        LET ret == ReconcileOf(netconf, daemonSets, fault)
        IN  /\ netconf' = ret.netconf
            /\ daemonSets' = ret.daemonSets
            /\ lastReconcile' = [done |-> TRUE, after |-> After(lastReconcile),
                                 found |-> Cardinality(daemonSets),
                                 calls |-> ret.calls, err |-> ret.err,
                                 requeue |-> ret.requeue]
    /\ UNCHANGED <<discovervars, nmvars, sysfsvars>>

\* kubectl apply: the user creates the NetworkConfiguration or changes its
\* spec; the status is kept by the status subresource
applyNetworkConfiguration ==
    /\ \E spec \in NetworkConfigurationSpecs :
        /\ netconf.exists => netconf.spec # spec
        /\ netconf' = [exists |-> TRUE, name |-> "gaudi-net", spec |-> spec,
                       status |-> IF netconf.exists THEN netconf.status
                                  ELSE ZeroStatus]
    /\ lastReconcile' = NoReconcile
    /\ UNCHANGED <<daemonSets, reconciles, discovervars, nmvars, sysfsvars>>

\* the DaemonSet controller reports the pods it scheduled
daemonSetStatus ==
    /\ \E ds \in daemonSets, st \in DaemonSetStatuses :
        /\ ds.status # st
        /\ daemonSets' = (daemonSets \ {ds}) \cup {[ds EXCEPT !.status = st]}
    /\ lastReconcile' = NoReconcile
    /\ UNCHANGED <<netconf, reconciles, discovervars, nmvars, sysfsvars>>

\* kubectl delete: the DaemonSet is deleted behind the operator's back
deleteDaemonSet ==
    /\ \E ds \in daemonSets : daemonSets' = daemonSets \ {ds}
    /\ lastReconcile' = NoReconcile
    /\ UNCHANGED <<netconf, reconciles, discovervars, nmvars, sysfsvars>>

\* kubectl delete of the NetworkConfiguration; the garbage collector
\* removes the DaemonSets it owned
deleteNetworkConfiguration ==
    /\ netconf.exists
    /\ netconf' = NoObject
    /\ daemonSets' = {}
    /\ lastReconcile' = NoReconcile
    /\ UNCHANGED <<reconciles, discovervars, nmvars, sysfsvars>>

ReconcileInit ==
    /\ NotStarted
    /\ NmIdle
    /\ SysfsIdle
    /\ ReconcileIdle

ReconcileNext ==
    \/ Reconcile
    \/ applyNetworkConfiguration
    \/ daemonSetStatus
    \/ deleteDaemonSet
    \/ deleteNetworkConfiguration

SpecReconcile == ReconcileInit /\ [][ReconcileNext]_vars

---------------------------------------------------------------------------
(* Properties of the resolver (under SpecResolve) *)

\* the description is "<token> <ipv4>/30" and the resolver has returned
CanonicalSlash30 ==
    /\ rres # Pending
    /\ Len(rdesc) = 3
    /\ rdesc[1].kind = "text"
    /\ rdesc[2].kind = "sp"
    /\ rdesc[3].kind = "cidr"
    /\ rdesc[3].form = "v4"
    /\ rdesc[3].bits = 30

\* C1: for every description "<token> <ipv4>/30" the resolver returns no
\* error, the peer address is the literal's address, and the local address
\* has the peer's first three octets and a last octet with the same upper six
\* bits and both low bits toggled; local and peer differ and lie in the same
\* /30 network.
C1_LocalIsPeerXor3 ==
    CanonicalSlash30 =>
        LET ip == rdesc[3].ip IN
        /\ rres.err = "none"
        /\ ~rres.panic
        /\ rres.peer = ip
        /\ Len(rres.local) = 4
        /\ \A i \in 1..3 : rres.local[i] = ip[i]
        /\ rres.local[4] \div 4 = ip[4] \div 4
        /\ (rres.local[4] % 4) + (ip[4] % 4) = 3
        /\ rres.local # rres.peer
        /\ Mask(rres.local, 30) = Mask(rres.peer, 30)

\* "no-alert 10.210.8.122/30" resolved to local 10.210.8.121
C1_Witness ==
    /\ CanonicalSlash30
    /\ rres.peer = IPv4(10, 210, 8, 122)
    /\ rres.local = IPv4(10, 210, 8, 121)

\* the second field of strings.Split is one IPv4 CIDR literal
SecondFieldIsIPv4Cidr(desc) ==
    LET f == Split(desc) IN
    /\ Len(f) >= 2
    /\ Len(f[2]) = 1
    /\ f[2][1].kind = "cidr"
    /\ f[2][1].form = "v4"
    /\ f[2][1].bits \in 0..32

\* C3: for every description the resolver returns (addresses or an error,
\* never an abort), and when the second token is not an IPv4 CIDR - malformed,
\* or an IPv6 literal, also one with /30 - the result is a resolution failure.
C3_NeverAbortsAndRejectsNonIPv4 ==
    rres # Pending =>
        /\ ~rres.panic
        /\ ~SecondFieldIsIPv4Cidr(rdesc) => rres.err \in {"split", "parse", "mask"}

\* strings.Fields: the maximal runs of items that are neither space nor tab
RECURSIVE Fields(_)
Fields(s) ==
    LET white(i) == s[i].kind \in {"sp", "tab"} IN
    IF \A i \in 1..Len(s) : white(i) THEN << >>
    ELSE LET b == CHOOSE i \in 1..Len(s) : ~white(i) /\ \A j \in 1..(i-1) : white(j)
             e == CHOOSE i \in b..Len(s) :
                     /\ \A j \in b..i : ~white(j)
                     /\ (i = Len(s) \/ white(i + 1))
         IN  <<SubSeq(s, b, e)>> \o Fields(SubSeq(s, e + 1, Len(s)))

\* C4: the description is tokenised on whitespace: with fewer than two
\* whitespace-delimited tokens the resolver returns an error and parses no
\* CIDR; with two or more (separated by a tab or by several spaces as well)
\* what it parses as CIDR is the second whitespace-separated token.
C4_TokenisesOnWhitespace ==
    rres # Pending =>
        LET f == Fields(rdesc) IN
        IF Len(f) < 2
        THEN rres.err = "split" /\ rres.cidrArg = << >>
        ELSE rres.cidrArg = <<f[2]>>

---------------------------------------------------------------------------
(* Properties of the run (under Spec) *)

\* the description's second field is a CIDR literal with prefix length 30
ResolvesToSlash30(d) ==
    LET f == Split(d) IN
    Len(f) >= 2 /\ ParseCIDR(f[2]).ok /\ ParseCIDR(f[2]).ones = 30

\* the description's second field is a CIDR literal with another prefix length
HasOtherPrefix(d) ==
    LET f == Split(d) IN
    Len(f) >= 2 /\ ParseCIDR(f[2]).ok /\ ParseCIDR(f[2]).ones # 30

\* lldpResults has returned
AfterLldpResults ==
    /\ config.mode = "L3"
    /\ pc \in {"WriteGaudiNet", "configureInterfaces", "logResults", "interfacesRestoreDown",
               "waitDown", "keepRunning", "idle"}

\* C2: after lldpResults a record has a local address exactly when its
\* port description resolved to a /30 CIDR; a CIDR with another prefix length
\* gets an error with no local address from the resolver, and the record's
\* local address and peer address stay unset.
C2_LocalAddrIffSlash30 ==
    AfterLldpResults =>
        \A n \in DOMAIN networkConfigs :
            LET r == networkConfigs[n] IN
            /\ (r.localAddr # NilIP) <=> ResolvesToSlash30(r.portDescription)
            /\ HasOtherPrefix(r.portDescription) =>
                  /\ selectMask30L3Address(r.portDescription).err = "mask"
                  /\ selectMask30L3Address(r.portDescription).local = NilIP
                  /\ r.localAddr = NilIP
                  /\ r.lldpPeer = NilIP

\* eth_a answered with a /16 and has no addresses, eth_b with a /30 and has both
C2_Witness ==
    /\ AfterLldpResults
    /\ DOMAIN networkConfigs = Links
    /\ HasOtherPrefix(networkConfigs["eth_a"].portDescription)
    /\ networkConfigs["eth_a"].localAddr = NilIP
    /\ networkConfigs["eth_b"].localAddr = IPv4(10, 210, 8, 125)
    /\ networkConfigs["eth_b"].lldpPeer = IPv4(10, 210, 8, 126)

\* C5: a run whose target set is empty, or in which a named interface does
\* not resolve to a link, fails before any link state, address or route is
\* changed, and no record map of a subset of the named interfaces is used for
\* bring-up, discovery or configuration.
C5_FailsFastOnUnresolved ==
    /\ (pc # "getConfig" /\ config.ifaces = {}) =>
          pc = "exit" /\ result \notin {"none", "nil"} /\ calls = NoCalls
    /\ (config.ifaces \ Links # {}) =>
          /\ pc \in {"getNetworkConfigs", "exit"}
          /\ pc = "exit" => result \notin {"none", "nil"}
          /\ calls = NoCalls

\* the run has reported success
Succeeded == pc = "idle" \/ (pc = "exit" /\ result = "nil")

\* C6: in L3 mode with configuration requested the run reports success only
\* if the configured count equals the number of target interfaces; a target
\* with no LLDP response, a failed resolution or a failed address or route
\* application, or no peer at all, makes the run fail.
C6_SuccessOnlyIfAllTargets ==
    (config.mode = "L3" /\ config.configure /\ Succeeded) =>
        /\ numConfigured = Cardinality(config.ifaces)
        /\ \A n \in config.ifaces :
              /\ n \in DOMAIN networkConfigs
              /\ networkConfigs[n].localAddr # NilIP
              /\ calls[n].counted = 1

---------------------------------------------------------------------------
(* Properties of configureInterfaces (under SpecConfigure) *)

\* configureInterfaces has returned
Returned == pc = "logResults" /\ invocation >= 1

\* records with a resolved local address
Resolved == {n \in DOMAIN networkConfigs : networkConfigs[n].localAddr # NilIP}

\* the link carried the record's local address when the invocation began
Carried(n) == \E a \in prev.addrs[n] : a.ip = networkConfigs[n].localAddr

\* the link carries the record's local address now
Carries(n) == \E a \in osAddrs[n] : a.ip = networkConfigs[n].localAddr

\* when the invocation began the link had the derived /30 address and both routes
Settled(n) ==
    /\ n \in Resolved
    /\ Addr(networkConfigs[n].localAddr, 30) \in prev.addrs[n]
    /\ NewRoute(networkConfigs[n], RouteMaskPointToPoint) \in prev.routes[n]
    /\ NewRoute(networkConfigs[n], RouteMaskRoutedNetwork) \in prev.routes[n]

C8_AddrAddExactlyWhenMissing ==
    Returned =>
        \A n \in DOMAIN networkConfigs :
            /\ n \notin Resolved => calls[n].AddrAdd = 0 /\ calls[n].AddrList = 0
            /\ (n \in Resolved /\ Carried(n)) => calls[n].AddrAdd = 0
            /\ (n \in Resolved /\ ~Carried(n) /\ calls[n].err # "AddrList") =>
                  /\ calls[n].AddrAdd = 1
                  /\ calls[n].added = {Addr(networkConfigs[n].localAddr, 30)}

\* eth_a began with two unrelated addresses and eth_b with none; each got
\* one AddrAdd of its own /30 address
C8_Witness ==
    /\ Returned
    /\ prev.addrs["eth_a"] = {Unrelated, Unrelated2}
    /\ prev.addrs["eth_b"] = {}
    /\ calls["eth_a"].AddrAdd = 1
    /\ calls["eth_a"].added = {Addr(IPv4(10, 210, 8, 121), 30)}
    /\ calls["eth_b"].AddrAdd = 1
    /\ calls["eth_b"].added = {Addr(IPv4(10, 210, 8, 125), 30)}

\* the invocation made sure of the /30 route: AddrAdd installed it, or
\* RouteAppend answered ok or exists
Ensured30(n) ==
    \/ calls[n].AddrAdd = 1 /\ calls[n].err # "AddrAdd"
    \/ calls[n].Route30 = 1 /\ calls[n].err # "Route30"

\* the invocation made sure of the /16 route
Ensured16(n) == calls[n].Route16 = 1 /\ calls[n].err # "Route16"

C10_ErrorExcludesOnlyThatInterface ==
    Returned =>
        /\ \A n \in Resolved :
              /\ calls[n].AddrList = 1
              /\ calls[n].counted = 1 <=> calls[n].err = "none"
        /\ numConfigured =
              Cardinality(Resolved) - Cardinality({n \in Resolved : calls[n].err # "none"})

\* the kernel refused eth_a's call; eth_b was processed and counted
C10_Witness ==
    /\ Returned
    /\ Resolved = Links
    /\ calls["eth_a"].err # "none"
    /\ calls["eth_a"].counted = 0
    /\ calls["eth_b"].AddrList = 1
    /\ calls["eth_b"].counted = 1
    /\ numConfigured = 1

---------------------------------------------------------------------------
(* Properties of the LLDP client and of detectLLDP (under SpecDetect) *)

\* the goroutine of the link is running Start
Running(n) == wstate[n] \in {"open", "listening"}

\* detectLLDP has returned
Detected == pc \notin {"detectLLDP", "wgWait"}

\* the results of link n in the channel
Buffered(n) == {i \in 1..Len(lldpResultChan) : lldpResultChan[i].InterfaceName = n}

C12_ExactlyOneResultPerWorker ==
    Detected =>
        \A n \in Links :
            wstate[n] = "done" => client[n].sent = 1 /\ client[n].consumed = 1

\* C12, amended: every interface on which discovery was started gets at most
\* one DiscoveryResult, exactly one when a frame matched before the
\* cancellation and none when Start returned for the cancellation or an open
\* or filter failure; detectLLDP reads every result sent, after the barrier,
\* into the record of its interface; an interface without worker gets none.
C12_OneResultIffMatched ==
    Detected =>
        \A n \in Links :
            /\ client[n].sent <= 1
            /\ client[n].consumed = client[n].sent
            /\ client[n].sent = 1 <=> client[n].exit = "result"
            /\ wstate[n] = "none" => client[n].sent = 0
            /\ client[n].consumed = 1 =>
                  \E f \in Frames(n) : networkConfigs[n].peerHWAddr = f.PeerMAC

\* eth_a's frame was read into its record, eth_b was cancelled and gave nothing
C12_Witness ==
    /\ pc = "lldpResults"
    /\ client["eth_a"].exit = "result"
    /\ client["eth_a"].consumed = 1
    /\ networkConfigs["eth_a"].portDescription # << >>
    /\ client["eth_b"].exit = "cancelled"
    /\ client["eth_b"].sent = 0
    /\ client["eth_b"].consumed = 0

\* C13: a worker whose context is cancelled before a frame matched returns
\* nil without sending, and detectLLDP and lldpResults leave the record of
\* its interface without port description, peer hardware address, peer and
\* local address; discovery does not fail for it.
C13_CancelledLeavesRecordEmpty ==
    \A n \in Links :
        client[n].exit = "cancelled" =>
            /\ client[n].sent = 0
            /\ Buffered(n) = {}
            /\ result = "none"
            /\ Detected =>
                  /\ client[n].consumed = 0
                  /\ networkConfigs[n].portDescription = << >>
                  /\ networkConfigs[n].peerHWAddr = NilPtr
                  /\ networkConfigs[n].lldpPeer = NilIP
                  /\ networkConfigs[n].localAddr = NilIP

\* eth_a was cancelled, eth_b resolved; lldpResults has run
C13_Witness ==
    /\ pc = "logResults"
    /\ client["eth_a"].exit = "cancelled"
    /\ networkConfigs["eth_a"].portDescription = << >>
    /\ networkConfigs["eth_b"].localAddr = IPv4(10, 210, 8, 125)
    /\ foundpeers

\* C14: no result is stored in a record, and lldpResults is not reached,
\* while a worker that was started has not returned: the channel is read
\* after wg.Wait() only, in every interleaving.
C14_MergeAfterBarrier ==
    /\ (\E n \in DOMAIN networkConfigs :
           \/ networkConfigs[n].portDescription # << >>
           \/ networkConfigs[n].peerHWAddr # NilPtr) => \A m \in Links : ~Running(m)
    /\ Detected => \A m \in Links : ~Running(m)
    /\ lldpResultChan # << >> => pc = "wgWait"

\* both workers sent, eth_b first, and both results are in the records
C14_Witness ==
    /\ pc = "lldpResults"
    /\ wstate = [n \in Links |-> "done"]
    /\ client["eth_a"].opens >= 2
    /\ networkConfigs["eth_a"].portDescription # << >>
    /\ networkConfigs["eth_b"].portDescription # << >>

\* C15: every worker started returns (on a frame, or once the deadline has
\* passed, also when its capture keeps ending), and once the deadline has
\* passed detectLLDP returns.
C15_WorkersTerminate ==
    /\ \A n \in Links : Running(n) ~> (wstate[n] = "done")
    /\ (pc = "wgWait" /\ ctxDone) ~> Detected

\* eth_a's capture ended and was reopened, then the deadline ended the worker
C15_Witness ==
    /\ Detected
    /\ client["eth_a"].exit = "cancelled"
    /\ client["eth_a"].opens >= 2
    /\ wstate["eth_a"] = "done"

\* C16: when Start has returned, on whatever path, the client has no open
\* capture handle, and a client never has more than one open.
C16_HandleReleased ==
    \A n \in Links :
        /\ client[n].openHandles \in {0, 1}
        /\ wstate[n] \in {"none", "done"} => client[n].openHandles = 0
        /\ wstate[n] = "listening" <=> client[n].openHandles = 1

\* eth_a's filter could not be installed; eth_b reopened its capture and
\* was cancelled; neither has a handle open
C16_Witness ==
    /\ client["eth_a"].exit = "SetBPFFilter failed"
    /\ client["eth_a"].openHandles = 0
    /\ client["eth_b"].exit = "cancelled"
    /\ client["eth_b"].opens >= 2
    /\ client["eth_b"].openHandles = 0

\* C17: on end-of-capture the client closes its handle, and once the
\* context has been cancelled it opens no new capture handle.
C17_NoOpenAfterCancel ==
    [][\A n \in Links :
          /\ (wstate[n] = "listening" /\ wstate'[n] = "open") =>
                client'[n].openHandles = client[n].openHandles - 1
          /\ ctxDone => client'[n].openHandles <= client[n].openHandles]_vars

---------------------------------------------------------------------------
(* Properties of bring-up (under Spec) *)

\* C18: when discovery begins, a worker has been started for every target
\* interface whose link is administratively up and for none whose link is down.
C18_WorkerIffLinkUp ==
    pc = "wgWait" =>
        \A n \in DOMAIN networkConfigs : (wstate[n] # "none") <=> osUp[n]

\* C19: the original state of every interface is recorded before any link
\* is changed; LinkSetUp is called for exactly the interfaces that are not
\* up; an acknowledgment is expected for exactly those whose LinkSetUp
\* succeeded.
C19_BringUpExact ==
    [][/\ pc = "getNetworkConfigs" =>
             /\ osUp' = osUp
             /\ \A n \in DOMAIN networkConfigs' :
                   networkConfigs'[n].origState = osUp[n] /\ calls'[n] = NoCall
       /\ (pc = "interfacesUp" /\ pc' = "waitUp") =>
             \A n \in DOMAIN networkConfigs :
                 /\ networkConfigs'[n].origState = osUp[n]
                 /\ calls'[n].LinkSetUp = (IF osUp[n] THEN 0 ELSE 1)
                 /\ networkConfigs'[n].expectResponse <=> (~osUp[n] /\ osUp'[n])]_vars

\* eth_a was down and set up, its acknowledgment is expected; eth_b was up
\* and got no request
C19_Witness ==
    /\ pc = "waitUp"
    /\ DOMAIN networkConfigs = Links
    /\ ~networkConfigs["eth_a"].origState
    /\ calls["eth_a"].LinkSetUp = 1
    /\ networkConfigs["eth_a"].expectResponse
    /\ networkConfigs["eth_b"].origState
    /\ calls["eth_b"].LinkSetUp = 0
    /\ ~networkConfigs["eth_b"].expectResponse

\* C20: interfacesUp fails only when LinkSubscribe fails: a failed
\* LinkSetUp or an acknowledgment that does not arrive leaves the run going to
\* its next step.
C20_BringUpNeverAborts ==
    [][/\ pc = "interfacesUp" => (pc' = "waitUp" \/ result' = "LinkSubscribe failed")
       /\ pc = "waitUp" =>
             pc' \in {"waitUp", "detectLLDP", "logResults"} /\ result' = "none"]_vars

\* discovery is reached although eth_a's acknowledgment is missing and
\* eth_b could not be set up
C20_Witness ==
    /\ pc = "detectLLDP"
    /\ result = "none"
    /\ DOMAIN networkConfigs = Links
    /\ networkConfigs["eth_a"].expectResponse
    /\ calls["eth_b"].LinkSetUp = 1
    /\ ~osUp["eth_b"]

\* C21: the wait for link-state acknowledgments always ends: once
\* waitLinkResponse has been entered it returns, also when an expected
\* acknowledgment never comes and updates of other links keep arriving
\* on the subscription
Waiting == pc \in {"waitUp", "waitDown"}
C21_WaitAlwaysEnds == Waiting ~> ~Waiting

\* C22: a run without the configure flag that no kernel call failed in
\* ends with a LinkSetDown request issued for every target interface that
\* was down at the start (each of them was requested up), and with every
\* such interface down again
C22_RestoresOriginallyDown ==
    (pc = "exit" /\ result = "nil" /\ ~config.configure /\ faults = 0) =>
        \A n \in DOMAIN networkConfigs :
            ~networkConfigs[n].origState =>
                calls[n].LinkSetDown >= 1 /\ ~osUp[n]

\* C23: the run removes every IPv4 address a target interface had before
\* discovery: after a configuring run that no kernel call failed in, the
\* only IPv4 address of an interface counted as configured is the local
\* address derived from its peer
C23_OnlyDerivedAddress ==
    (pc = "exit" /\ result = "nil" /\ config.configure /\ config.mode = "L3" /\ faults = 0) =>
        \A n \in DOMAIN networkConfigs :
            calls[n].counted >= 1 =>
                {a.ip : a \in osAddrs[n]} = {networkConfigs[n].localAddr}

\* C24: when an MTU is requested, LinkSetMTU is called once for every
\* target interface and for no other, with one value that lies in
\* [1500, 9000]: 1500 for a request below 1500, 9000 for a request above
\* 9000, the requested value otherwise
MtuApplied == pc = "removeExistingIPs" /\ mtu # 0
HasEntry(n) ==
    \E i \in DOMAIN gaudinet.Config : gaudinet.Config[i].Mac = networkConfigs[n].localHwAddr
PeerMACLearned(n) == networkConfigs[n].peerHWAddr \notin {NilPtr, ""}
C25_EntryOnlyWithAddressAndPeerMAC ==
    gaudinet.exists =>
        \A n \in DOMAIN networkConfigs :
            HasEntry(n) => networkConfigs[n].localAddr # NilIP /\ PeerMACLearned(n)

---------------------------------------------------------------------------
(* Properties of the exports *)

\* C26: for records with known MAC, local address and peer MAC the bytes
\* of GenerateGaudiNet, which WriteGaudiNet writes to the file, are
\* exactly {"NIC_NET_CONFIG":[<entry>,...]} with the entry
\* {"NIC_MAC":"<mac>","NIC_IP":"<ip>","SUBNET_MASK":"255.255.255.252",
\* "GATEWAY_MAC":"<peermac>"} of each record, keys in that order and no
\* white space; SUBNET_MASK is 255.255.255.252 in every entry
Known(n) ==
    /\ n \in DOMAIN networkConfigs
    /\ networkConfigs[n].localAddr = LocalIP(n)
    /\ networkConfigs[n].peerHWAddr \notin {NilPtr, ""}
ExpectedEntry(n) ==
    IF n = "eth_a"
    THEN "{\"NIC_MAC\":\"01:02:03:04:05:0a\",\"NIC_IP\":\"10.210.8.121\",\"SUBNET_MASK\":\"255.255.255.252\",\"GATEWAY_MAC\":\"06:05:04:03:02:0a\"}"
    ELSE "{\"NIC_MAC\":\"01:02:03:04:05:0b\",\"NIC_IP\":\"10.210.8.125\",\"SUBNET_MASK\":\"255.255.255.252\",\"GATEWAY_MAC\":\"06:05:04:03:02:0b\"}"
C26_ExactJson ==
    (gaudinetErr = "nil" /\ \A n \in DOMAIN networkConfigs : Known(n)) =>
        /\ \A n \in Links :
              DOMAIN networkConfigs = {n} =>
                 gaudinet.contents = "{\"NIC_NET_CONFIG\":[" \o ExpectedEntry(n) \o "]}"
        /\ DOMAIN networkConfigs = Links =>
              \E n, m \in Links :
                 /\ n # m
                 /\ gaudinet.contents =
                       "{\"NIC_NET_CONFIG\":[" \o ExpectedEntry(n) \o "," \o ExpectedEntry(m) \o "]}"
        /\ \A i \in DOMAIN gaudinet.Config : gaudinet.Config[i].Mask = "255.255.255.252"

\* the file of the one record of eth_a
C26_Witness ==
    /\ gaudinetErr = "nil"
    /\ DOMAIN networkConfigs = {"eth_a"}
    /\ Known("eth_a")
    /\ gaudinet.exists
    /\ gaudinet.contents =
          "{\"NIC_NET_CONFIG\":[{\"NIC_MAC\":\"01:02:03:04:05:0a\",\"NIC_IP\":\"10.210.8.121\",\"SUBNET_MASK\":\"255.255.255.252\",\"GATEWAY_MAC\":\"06:05:04:03:02:0a\"}]}"

\* C27: the gaudinet file describes configured interfaces: whenever the
\* file of this run exists, configureInterfaces has applied the derived
\* address of the interface of every entry and counted it as configured
C27_EntriesAreConfigured ==
    gaudinet.exists =>
        \A n \in DOMAIN networkConfigs :
            HasEntry(n) =>
                /\ calls[n].counted >= 1
                /\ Addr(networkConfigs[n].localAddr, RouteMaskPointToPoint) \in osAddrs[n]

\* C28: WriteGaudiNet reports a failed export as an error and leaves the
\* file as it was, and cmdRun goes on exactly as after a successful
\* export: to configureInterfaces when --configure is set and a peer was
\* found, to logResults otherwise, with nothing returned and the records
\* and the kernel state untouched
C28_ExportFailureNotFatal ==
    [][pc = "WriteGaudiNet" =>
          /\ gaudinetErr' # "none"
          /\ gaudinetErr' # "nil" <=> gaudinet' = gaudinet
          /\ gaudinetErr' = "nil" <=> gaudinet'.exists
          /\ pc' = IF config.configure /\ foundpeers THEN "configureInterfaces"
                   ELSE "logResults"
          /\ result' = "none"
          /\ UNCHANGED <<config, networkConfigs, osvars, foundpeers, numConfigured,
                         numTotal, cfgvars>>]_vars

\* a configuring run returned nil with every interface configured although
\* the gaudinet file could not be written
C28_Witness ==
    /\ pc = "exit"
    /\ result = "nil"
    /\ config.configure
    /\ gaudinetErr = "os.WriteFile failed"
    /\ ~gaudinet.exists
    /\ numTotal >= 1
    /\ numConfigured = numTotal
    /\ \A n \in DOMAIN networkConfigs : calls[n].AddrAdd = 1

\* C29: when writing the unit file of an interface fails,
\* WriteSystemdNetworkd writes no further file, returns an error and a nil
\* list, and no file it wrote earlier in the call remains in the directory
\* (a file whose os.Remove failed is the exception: that error is dropped)
WriteFailed == \E i \in DOMAIN networkdLog : networkdLog[i].op = "write" /\ ~networkdLog[i].ok
RemoveFailed(n) ==
    \E i \in DOMAIN networkdLog :
        networkdLog[i].op = "remove" /\ networkdLog[i].ifname = n /\ ~networkdLog[i].ok
Incomplete(n) ==
    \/ ~networkConfigs[n].link
    \/ networkConfigs[n].localAddr = NilIP
    \/ networkConfigs[n].localHwAddr = ""
SomeIncomplete == \E n \in DOMAIN networkConfigs : Incomplete(n)
C30_ValidatesBatchFirst ==
    /\ [](SomeIncomplete =>
            /\ networkdLog = << >>
            /\ networkdRet.returned => networkdRet.isNil /\ networkdRet.err # "nil")
    /\ []((networkdRet.returned /\ ~SomeIncomplete /\ ~WriteFailed) =>
            /\ networkdRet.err = "nil"
            /\ ~networkdRet.isNil
            /\ Len(networkdRet.configured) = Cardinality(DOMAIN networkConfigs)
            /\ \A n \in DOMAIN networkConfigs :
                  /\ \E i \in DOMAIN networkdRet.configured : networkdRet.configured[i] = n
                  /\ networkdFiles[n].exists
                  /\ networkdFiles[n].contents # OldFile.contents
            /\ \A n \in Links \ DOMAIN networkConfigs :
                  \A i \in DOMAIN networkdLog : networkdLog[i].ifname # n)
    /\ [][SomeIncomplete => UNCHANGED networkdFiles]_vars

\* both unit files are written and both names returned; the file of eth_a
\* has the contents TestSystemdNetworkdConfig expects
C30_Witness ==
    /\ networkdRet.returned
    /\ networkdRet.err = "nil"
    /\ networkdRet.configured \in {<<"eth_a", "eth_b">>, <<"eth_b", "eth_a">>}
    /\ networkdFiles["eth_b"].exists
    /\ networkdFiles["eth_a"] =
          [exists |-> TRUE,
           contents |-> "[Match]\nMACAddress=01:02:03:04:05:0a\n\n[Network]\nDescription=Networkd configuration for eth_a created by network-operator\nAddress=10.210.8.121/30\n\n[Route]\nDestination=10.210.0.0/16\n"]

---------------------------------------------------------------------------
(* Properties of DisableNetworkManagerForInterfaces (under SpecNM) *)

\* a call of the operation was answered with an error
NmFailed(op) == \E i \in 1..Len(nmCalls) : nmCalls[i].op = op /\ nmCalls[i].err # "nil"

\* C31: when the version of NetworkManager cannot be read,
\* DisableNetworkManagerForInterfaces returns nil after that one call, and no
\* device is changed; when the version was read, a failure of GetAllDevices,
\* of a device's GetPropertyInterface or of a target device's
\* SetPropertyManaged is what the function returns; SetPropertyManaged is
\* called on, and the managed state changes of, only devices whose
\* interface name is in the list.
C31_BestEffortUnmanage ==
    /\ [](NmFailed("GetPropertyVersion") => nmRet = "nil" /\ Len(nmCalls) = 1)
    /\ [](\A op \in {"GetAllDevices", "GetPropertyInterface", "SetPropertyManaged"} :
             NmFailed(op) =>
                /\ ~NmFailed("GetPropertyVersion")
                /\ nmRet = nmCalls[Len(nmCalls)].err
                /\ nmCalls[Len(nmCalls)].op = op)
    /\ [](\A i \in 1..Len(nmCalls) :
             nmCalls[i].op = "SetPropertyManaged" =>
                nmDevices[nmCalls[i].dev].iface \in nmInterfaces)
    /\ [][\A j \in 1..Len(nmDevices) :
             nmDevices'[j] # nmDevices[j] =>
                /\ nmDevices[j].iface \in nmInterfaces
                /\ ~NmFailed("GetPropertyVersion")']_vars

\* the first device is not in the list and is still managed, and
\* SetPropertyManaged failed on the second, which is in the list
C31_Witness ==
    /\ nmRet = "os.ErrProcessDone"
    /\ Len(nmDevices) = 2
    /\ nmDevices[1].iface \notin nmInterfaces
    /\ nmDevices[1].managed
    /\ nmDevices[2].iface \in nmInterfaces
    /\ nmCalls[Len(nmCalls)] = NmCall("SetPropertyManaged", 2, "os.ErrProcessDone")

---------------------------------------------------------------------------
(* Properties of the end of the run (under Spec) *)

\* the run wrote the readiness label and idles, or was ended by a signal
Daemon == pc \in {"idle", "killed"}

\* C32: a run that was configuring and keeps running blocks until a
\* termination signal arrives; when the signal has ended it, no address the
\* run added is left on a link, every interface that was down at the start
\* is down again, and the readiness label file is gone.
C32_DaemonCleansUpOnSignal ==
    /\ Daemon => config.configure /\ config.keepRunning /\ result = "none"
    /\ pc = "killed" =>
          /\ \A n \in Links : calls[n].added \cap osAddrs[n] = {}
          /\ \A n \in DOMAIN networkConfigs :
                ~networkConfigs[n].origState => ~osUp[n]
          /\ ~nfdLabel

\* C33: the readiness label file is written only in a run with the
\* configure flag that has not returned an error; in L3 mode only when at
\* least one target interface exists as a link and every target interface
\* was counted as configured.
C33_LabelOnlyWhenConfigured ==
    nfdLabel =>
       /\ config.configure
       /\ result \in {"none", "nil"}
       /\ config.mode = "L3" =>
             /\ config.ifaces \cap Links # {}
             /\ \A n \in config.ifaces : n \in Links /\ calls[n].counted > 0

\* C34: in an L2 run no discovery goroutine is started and nothing is
\* captured, no address is listed or added and no route is appended on any
\* link, the addresses and routes of every link stay as they were, and the
\* run does not return 'Not all interfaces were configured'.
C34_L2OnlyBringsUp ==
    /\ [](config.mode = "L2" =>
            /\ pc \notin {"detectLLDP", "wgWait", "lldpResults", "WriteGaudiNet",
                          "configureInterfaces"}
            /\ wstate = [n \in Links |-> "none"]
            /\ client = [n \in Links |-> NoClient]
            /\ lldpResultChan = << >>
            /\ \A n \in Links :
                  /\ calls[n].AddrList = 0
                  /\ calls[n].AddrAdd = 0
                  /\ calls[n].Route30 = 0
                  /\ calls[n].Route16 = 0
            /\ result # "Not all interfaces were configured")
    /\ [][config.mode = "L2" => UNCHANGED <<osAddrs, osRoutes>>]_vars

\* an L2 run with the configure flag has set a link up and returned nil,
\* with no interface counted as configured
C34_Witness ==
    /\ config.mode = "L2"
    /\ config.configure
    /\ pc = "exit"
    /\ result = "nil"
    /\ numConfigured = 0
    /\ numTotal = 2
    /\ \E n \in Links : calls[n].LinkSetUp = 1 /\ osUp[n]

---------------------------------------------------------------------------
(* Properties of getNetworks (under SpecSysfs) *)

\* the PCI devices whose link in the driver directory resolves
BoundDevices ==
    {p \in Range(PciDevices) :
        sysfsDriver.exists /\ sysfsDriver.entries[p] = "link"}

\* C35: getNetworks always returns a list.  Unless a glob fails, the list
\* holds exactly the names of the net/ children of the device directories
\* the PCI links of the driver directory resolve to, each once; with no
\* driver directory or no bound device it is empty.  A link that does not
\* resolve and a glob that fails only leave names out: when the glob of
\* the driver directory fails the list is empty, when the glob of a device
\* directory fails the names of the other devices are still returned.
C35_ExactlyBoundInterfaces ==
    networks.returned =>
       LET r == networks.habanaNetDevices
           found == {p \in BoundDevices : ~sysfsNet[p].globErr}
       IN
       /\ \A i, j \in 1..Len(r) : r[i] = r[j] => i = j
       /\ Range(r) = IF sysfsRootBad THEN {}
                     ELSE UNION {sysfsNet[p].net : p \in found}
       /\ (~sysfsDriver.exists \/ BoundDevices = {}) => r = << >>

\* the first link does not resolve, the second device has an interface,
\* which is returned
C35_Witness ==
    /\ networks.returned
    /\ ~sysfsRootBad
    /\ sysfsDriver.exists
    /\ sysfsDriver.entries[PciDevices[1]] = "dangling"
    /\ sysfsNet[PciDevices[1]].net # {}
    /\ networks.habanaNetDevices = <<"eth_b">>

\* the records of the interfaces that were up when the run began
OriginallyUp == {n \in DOMAIN networkConfigs : networkConfigs[n].origState}

\* C36: LinkSetDown is called only for an interface of the record map that
\* was down when the run began; an interface that was up then is neither
\* set up nor set down by the run and stays up through the whole run.
C36_OriginallyUpUntouched ==
    /\ \A n \in Links :
          calls[n].LinkSetDown > 0 => n \in DOMAIN networkConfigs \ OriginallyUp
    /\ \A n \in OriginallyUp :
          /\ calls[n].LinkSetUp = 0
          /\ calls[n].LinkSetDown = 0
          /\ osUp[n]

\* a discovery-only run has returned: eth_a, up at the start, is up and was
\* never set down; eth_b, down at the start, was set up and down again
C36_Witness ==
    /\ pc = "exit"
    /\ result = "nil"
    /\ ~config.configure
    /\ OriginallyUp = {"eth_a"}
    /\ osUp["eth_a"]
    /\ DOMAIN networkConfigs = {"eth_a", "eth_b"}
    /\ calls["eth_b"].LinkSetUp = 1
    /\ calls["eth_b"].LinkSetDown = 1
    /\ ~osUp["eth_b"]

---------------------------------------------------------------------------
(* Properties of waitLinkResponse (under SpecWait) *)

\* the step is the return of waitLinkResponse
WaitReturns == Waiting /\ ~Waiting'

\* C37: while waitLinkResponse runs, the expectResponse flag of a record
\* changes only in the step that reads a link update naming its interface,
\* and a link update naming an interface that has no record changes no
\* record; waitLinkResponse returns nil exactly when no record has the
\* flag set and the timeout error otherwise, and its return changes no
\* record, so the flags of the interfaces without acknowledgment stay set.
C37_FlagClearedOnlyByOwnUpdate ==
    /\ [][Waiting =>
            \A n \in DOMAIN networkConfigs :
               networkConfigs'[n].expectResponse # networkConfigs[n].expectResponse =>
                  /\ networkConfigs[n].expectResponse
                  /\ n \in linkUpdate
                  /\ linkUpdate' = linkUpdate \ {n}
                  /\ \A m \in DOMAIN networkConfigs \ {n} :
                        networkConfigs'[m] = networkConfigs[m]]_vars
    /\ [][(\E n \in Names : waitLinkResponseOther(n)) => UNCHANGED networkConfigs]_vars
    /\ [][WaitReturns =>
            /\ waitErr' = IF \A n \in DOMAIN networkConfigs :
                                 ~networkConfigs[n].expectResponse
                          THEN "nil"
                          ELSE "timeout waiting for netlink reply"
            /\ UNCHANGED networkConfigs]_vars

\* waitLinkResponse returned the timeout error: the update of eth_a was
\* read and cleared its flag, that of eth_b was not and its flag is set
C37_Witness ==
    /\ waitErr = "timeout waiting for netlink reply"
    /\ pc = "logResults"
    /\ DOMAIN networkConfigs = {"eth_a", "eth_b"}
    /\ calls["eth_a"].LinkSetUp = 1
    /\ ~networkConfigs["eth_a"].expectResponse
    /\ networkConfigs["eth_a"].flagsUp
    /\ networkConfigs["eth_b"].expectResponse

---------------------------------------------------------------------------
(* Properties of the result channel of detectLLDP (under SpecDetect) *)

\* the interfaces detectLLDP started a goroutine for
Launched == {n \in Links : wstate[n] # "none"}

\* C38: the results buffered in the channel are at most as many as the
\* goroutines started, which are at most as many as the channel has room
\* for (one per record), and whenever a goroutine is at the point where it
\* may send, the send can be made: no send blocks while detectLLDP is in
\* wg.Wait().
C38_SendNeverBlocks ==
    pc = "wgWait" =>
       /\ Len(lldpResultChan) <= Cardinality(Launched)
       /\ Cardinality(Launched) <= Cardinality(DOMAIN networkConfigs)
       /\ \A n \in Links :
             wstate[n] = "listening" => ENABLED lldpClientMatch(n)

\* detectLLDP is in wg.Wait(), both goroutines have sent and returned, and
\* the channel is full
C38_Witness ==
    /\ pc = "wgWait"
    /\ Launched = {"eth_a", "eth_b"}
    /\ Len(lldpResultChan) = 2
    /\ Cardinality(DOMAIN networkConfigs) = 2
    /\ \A n \in Launched : wstate[n] = "done" /\ client[n].exit = "result"

\* results of a goroutine for an interface that has no record
UnknownResults ==
    {[InterfaceName |-> "foo", PortDescription |-> f.PortDescription, PeerMAC |-> f.PeerMAC] :
        f \in Frames("eth_a")}

Reversed(ch) == [i \in 1..Len(ch) |-> ch[Len(ch) + 1 - i]]

\* C39: after detectLLDP the portDescription and peerHWAddr of a record
\* are those of one frame its own interface may carry if its goroutine sent
\* a result, and are as getNetworkConfigs left them if it sent none; the
\* merge of the results in the channel gives the same records when the
\* results are read in the opposite order, and a result with the name of an
\* interface that has no record changes no record, wherever it stands.
C39_MergedUnderOwnName ==
    /\ Detected =>
          \A n \in DOMAIN networkConfigs :
             IF client[n].sent = 0
             THEN /\ networkConfigs[n].portDescription = << >>
                  /\ networkConfigs[n].peerHWAddr = NilPtr
             ELSE \E f \in Frames(n) :
                     /\ networkConfigs[n].portDescription = f.PortDescription
                     /\ networkConfigs[n].peerHWAddr = f.PeerMAC
    /\ pc = "wgWait" =>
          /\ Merge(networkConfigs, Reversed(lldpResultChan)) =
                Merge(networkConfigs, lldpResultChan)
          /\ \A r \in UnknownResults :
                /\ Merge(networkConfigs, <<r>>) = networkConfigs
                /\ Merge(networkConfigs, <<r>> \o lldpResultChan) =
                      Merge(networkConfigs, lldpResultChan)
                /\ Merge(networkConfigs, lldpResultChan \o <<r>>) =
                      Merge(networkConfigs, lldpResultChan)

\* detectLLDP has returned: both goroutines sent a result, and the frame
\* of eth_a and the frame of eth_b are each in their own record
C39_Witness ==
    /\ pc = "lldpResults"
    /\ client["eth_a"].consumed = 1
    /\ client["eth_b"].consumed = 1
    /\ networkConfigs["eth_a"].portDescription =
          <<Text("no-alert"), SP, Cidr("v4", PeerIP("eth_a"), 16)>>
    /\ networkConfigs["eth_a"].peerHWAddr = "06:05:04:03:02:0a"
    /\ networkConfigs["eth_b"].portDescription =
          <<Text("no-alert"), SP, Cidr("v4", PeerIP("eth_b"), 30)>>
    /\ networkConfigs["eth_b"].peerHWAddr = "06:05:04:03:02:0b"

(***************************************************************************)
(* Properties of the reconciler (under SpecReconcile)                      *)
(***************************************************************************)
\* the last Reconcile ran on the state a successful Reconcile had left
\* (no error, no requeue), with no object changed in between
RanAgain ==
    /\ lastReconcile.done
    /\ lastReconcile.after \in {"sync", "create"}

\* a Reconcile creates a DaemonSet only when the NetworkConfiguration
\* owned none, and the NetworkConfiguration never owns more than one
CreatesOnlyFirst ==
    /\ Cardinality(daemonSets) <= 1
    /\ lastReconcile.done /\ "Create" \in lastReconcile.calls
           => lastReconcile.found = 0

\* C40 as stated: Reconcile is idempotent: a Reconcile that runs again on
\* the state left by a previous successful Reconcile, with the
\* NetworkConfiguration and the DaemonSet status unchanged, issues no
\* DaemonSet create, no DaemonSet update and no status update; a DaemonSet
\* is created only when the resource owns none, so at most one DaemonSet
\* per NetworkConfiguration exists.
C40_ReconcileIdempotent ==
    /\ RanAgain => lastReconcile.calls = {}
    /\ CreatesOnlyFirst

\* C40 (amended): a Reconcile that runs again on the state left by a
\* previous successful Reconcile which found the DaemonSet, with nothing
\* changed in between, issues no create, no update and no status update;
\* one that runs again after the Reconcile that created the DaemonSet (the
\* create path returns without updateStatus) issues no create and no
\* update, and a status update exactly when the status of the
\* NetworkConfiguration differs from that of the new DaemonSet; a
\* DaemonSet is created only when the resource owns none, so at most one
\* DaemonSet per NetworkConfiguration exists.
C40_IdempotentAfterSync ==
    /\ lastReconcile.done /\ lastReconcile.after = "sync"
           => lastReconcile.calls = {}
    /\ lastReconcile.done /\ lastReconcile.after = "create"
           => lastReconcile.calls \subseteq {"StatusUpdate"}
    /\ CreatesOnlyFirst

\* C40 witness: the last Reconcile of the run found the DaemonSet with pods
\* scheduled and ready, the status of the NetworkConfiguration equal to
\* it, and issued nothing, after a Reconcile that had not created it.
C40_Witness ==
    /\ lastReconcile.done
    /\ lastReconcile.after = "sync"
    /\ lastReconcile.err = "nil"
    /\ lastReconcile.calls = {}
    /\ lastReconcile.found = 1
    /\ reconciles = MaxReconciles
    /\ netconf.exists
    /\ netconf.status.Targets = MaxNodes
    /\ netconf.status.ReadyNodes = MaxNodes
    /\ \E ds \in daemonSets : ds.template.Args = <<"--layer=L3">>

=======================================================================
